---- MODULE Spec2Model ----
(***************************************************************************)
(* A model of sirun: the orchestrator (main_main, run_iteration), the      *)
(* per-iteration child (iteration_main, run_test, test_timeout), the       *)
(* setup/teardown retry loop (run_setup_or_teardown) and the statsd        *)
(* listener with its buffer (statsd_listener, get_statsd_metrics).         *)
(*                                                                         *)
(* Three OS processes or tasks take steps: the top-level process (pc), its *)
(* listener task (lpc) and the self-re-exec child of one iteration (cpc)   *)
(* with its timeout watcher (watcher).  Commands the program spawns are    *)
(* environment: each one exits with a status drawn from a small set.       *)
(***************************************************************************)
EXTENDS Integers, Sequences, FiniteSets, TLC

(***************************************************************************)
(* Bounds of the model.                                                    *)
(***************************************************************************)
MaxIterations == 2          \* config.iterations ranges over 1..MaxIterations
MaxTimeout == 1             \* config.timeout is None or Some(MaxTimeout)
MaxNum == 12                \* the numbers parse::<f64> knows: 0..MaxNum and percentages of them
MaxCustom == 2              \* datagrams the measured commands of one invocation send
MaxVariants == 2            \* entries of a `variants` array
MaxObs == 3                 \* the observations of a metric range over 0..MaxObs

(***************************************************************************)
(* Program constants.                                                      *)
(***************************************************************************)
MaxAttempts == 100          \* subproc.rs:27  attempts == 100
FatalCeiling == 128         \* main.rs:168    status <= 128
StatsdPort == 8125          \* main.rs:318    "127.0.0.1:8125"
TimeoutExit == 1            \* main.rs:153    exit(1)
BadCachegrindExit == 1      \* main.rs:283    exit(1)
ErrExit == 1                \* main.rs:323    main returns Err
PanicExit == 101            \* main.rs:167    expect() panics
AbortExit == 134            \* statsd.rs:19   a panic that aborts the process
OtherPort == 9000           \* a fixed port other than 8125
EphemeralPort == 40000      \* the port the OS picks for a bind to port 0

(***************************************************************************)
(* Sample measurements of the measured command (inputs from the kernel).   *)
(***************************************************************************)
SampleUser == 2             \* user CPU time of the measured command
SampleSystem == 1           \* its system CPU time
SampleMaxRss == 5           \* its peak resident set size
SampleWall == 7             \* its wall-clock duration

(***************************************************************************)
(* Option<T> and ExitStatus.                                               *)
(***************************************************************************)
None == [some |-> FALSE, val |-> 0]
Some(x) == [some |-> TRUE, val |-> x]

\* ExitStatus: a process either exited with a code or was killed by a signal.
Exited(c) == [exited |-> TRUE, n |-> c]
Signaled(s) == [exited |-> FALSE, n |-> s]
\* ExitStatus::code()
StatusCode(st) == IF st.exited THEN Some(st.n) ELSE None

ExitCodes == {0, 1, 128, 130}
Signals == {9}
Statuses == {Exited(c) : c \in ExitCodes} \cup {Signaled(s) : s \in Signals}
\* the statuses a setup or teardown command ends with
SotStatuses == {Exited(0), Exited(1)} \cup {Signaled(s) : s \in Signals}
\* a process that has not ended has no exit code yet
Running == -1

(***************************************************************************)
(* f64 values are modelled as exact fractions in lowest terms; Display and *)
(* parse::<f64> are a conversion to text and back.                         *)
(***************************************************************************)
RECURSIVE Gcd(_, _)
Gcd(a, b) == IF b = 0 THEN a ELSE Gcd(b, a % b)

Frac(n, d) == LET g == Gcd(n, d) IN [n |-> n \div g, d |-> d \div g]
Num(n) == [n |-> n, d |-> 1]

\* format!("{}", x) for an f64
FormatF64(x) == IF x.d = 1 THEN ToString(x.n) ELSE ToString(x.n) \o "/" \o ToString(x.d)

F64Domain ==
  {Num(n) : n \in 0..MaxNum}
    \cup {Frac(100 * n, d) : n \in 0..MaxNum, d \in 1..MaxNum}

\* the texts of the numbers of F64Domain
F64Texts == {FormatF64(x) : x \in F64Domain}

\* str::parse::<f64>(): Ok(x) for the text of a number, Err otherwise
ParseF64(s) ==
  IF s \in F64Texts
  THEN Some(CHOOSE x \in F64Domain : FormatF64(x) = s)
  ELSE None

(***************************************************************************)
(* Text is a sequence of tokens (strings): keys and numbers are one token  *)
(* each, ":" "|" "\n" are tokens of their own.                             *)
(***************************************************************************)
NL == "\n"

RECURSIVE Join(_)
Join(toks) == IF toks = <<>> THEN "" ELSE Head(toks) \o Join(Tail(toks))

RECURSIVE TrimStart(_)
TrimStart(s) == IF s # <<>> /\ Head(s) = NL THEN TrimStart(Tail(s)) ELSE s

RECURSIVE TrimEnd(_)
TrimEnd(s) ==
  IF s # <<>> /\ s[Len(s)] = NL THEN TrimEnd(SubSeq(s, 1, Len(s) - 1)) ELSE s

\* str::trim()
Trim(s) == TrimEnd(TrimStart(s))

\* split on a separator token: the sequence of fields (always at least one)
RECURSIVE SplitOn(_, _, _)
SplitOn(s, sep, cur) ==
  IF s = <<>> THEN <<cur>>
  ELSE IF Head(s) = sep THEN <<cur>> \o SplitOn(Tail(s), sep, <<>>)
  ELSE SplitOn(Tail(s), sep, Append(cur, Head(s)))

\* str::lines(): split on "\n", a final empty line is not produced
Lines(s) ==
  LET parts == SplitOn(s, NL, <<>>)
  IN IF parts[Len(parts)] = <<>> THEN SubSeq(parts, 1, Len(parts) - 1) ELSE parts

\* IndexMap::insert on a map held as a function from keys to values
MapInsert(m, k, v) == [x \in (DOMAIN m) \cup {k} |-> IF x = k THEN v ELSE m[x]]
EmptyMap == [x \in {} |-> 0]

\* the loop of get_statsd_metrics over the lines: Ok(metrics), or Err when a
\* value does not parse (the `?` of line 49)
RECURSIVE ParseLines(_, _)
ParseLines(lines, metrics) ==
  IF lines = <<>> THEN [ok |-> TRUE, metrics |-> metrics]
  ELSE LET metric == SplitOn(SplitOn(Head(lines), "|", <<>>)[1], ":", <<>>)
       IN IF Len(metric) < 2 THEN ParseLines(Tail(lines), metrics)
          ELSE LET v == ParseF64(Join(metric[2]))
               IN IF ~v.some THEN [ok |-> FALSE, metrics |-> metrics]
                  ELSE ParseLines(Tail(lines), MapInsert(metrics, Join(metric[1]), v.val))

\* get_statsd_metrics applied to the string it read from the buffer
ParseMetrics(udp_string) == ParseLines(Lines(Trim(udp_string)), EmptyMap)

(***************************************************************************)
(* The kernel metrics of the per-iteration child.                          *)
(***************************************************************************)
KernelKeys == {"wall.time", "user.time", "system.time", "max.res.size", "cpu.pct.wall.time"}

\* get_kernel_metrics with the system time left out of the percentage
get_kernel_metrics_user_only(wall_time, data, metrics) ==
  LET m1 == MapInsert(metrics, "max.res.size", Num(data.max_res_size))
      m2 == MapInsert(m1, "user.time", Num(data.user_time))
      m3 == MapInsert(m2, "system.time", Num(data.system_time))
      pct == Frac(data.user_time * 100, wall_time)
  IN MapInsert(m3, "cpu.pct.wall.time", pct)

\* get_kernel_metrics(wall_time, data, metrics)
get_kernel_metrics(wall_time, data, metrics) ==
  LET m1 == MapInsert(metrics, "max.res.size", Num(data.max_res_size))
      m2 == MapInsert(m1, "user.time", Num(data.user_time))
      m3 == MapInsert(m2, "system.time", Num(data.system_time))
      pct == Frac((data.user_time + data.system_time) * 100, wall_time)
  IN MapInsert(m3, "cpu.pct.wall.time", pct)

MetricLine(key, m) == <<key, ":", FormatF64(m[key]), "|", "g", NL>>

\* the datagram without its last line
KernelDatagramFourLines(m) ==
  MetricLine("max.res.size", m) \o MetricLine("user.time", m)
    \o MetricLine("system.time", m) \o MetricLine("wall.time", m)

\* the format! of iteration_main: five lines, each ended by a newline
KernelDatagram(m) ==
  MetricLine("max.res.size", m) \o MetricLine("user.time", m)
    \o MetricLine("system.time", m) \o MetricLine("wall.time", m)
    \o MetricLine("cpu.pct.wall.time", m)

\* the port iteration_main sends its datagram to
ChildDestPort(envPort) == StatsdPort

(***************************************************************************)
(* State.                                                                  *)
(***************************************************************************)
VARIABLES
  config,             \* the resolved Config (no variant fan-out)
  valgrind,           \* which("valgrind").is_ok(), looked up at line 248
  SIRUN_STATSD_PORT,  \* the environment variable of the top-level process
  pc,                 \* where the top-level process is in main_main
  exitCode,           \* its exit code, Running while it runs
  err,                \* the Err main_main returned with, "" when none
  typ,                \* run_setup_or_teardown: "setup" or "teardown"
  inCg,               \* TRUE in the cachegrind block of main_main
  code,               \* run_setup_or_teardown: code
  attempts,           \* run_setup_or_teardown: attempts
  status,             \* run_iteration: exit code of the self-re-exec child
  udp_string,         \* get_statsd_metrics: the clone of the buffer
  metrics,            \* run_iteration: the metrics of this iteration
  iterations,         \* main_main: the Vec of IterationResults
  output,             \* main_main: what valgrind printed, as an Option
  instructions,       \* main_main: the instruction count, as an Option
  stdout,             \* the result lines printed so far
  lpc,                \* where the listener task is in statsd_listener
  boundPort,          \* the port its socket is bound to, 0 before the bind
  statsd_started,     \* the Barrier: the tasks that have called wait()
  statsd_buf,         \* the shared buffer
  sock,               \* datagrams delivered to the listener's socket, unread
  cpc,                \* where the per-iteration child is in iteration_main
  cenv,               \* SIRUN_STATSD_PORT as the child inherited it
  cstatus,            \* run_test: the ExitStatus of the measured command
  cexit,              \* the child's exit code, Running while it runs
  cmetrics,           \* iteration_main: metrics
  watcher,            \* the test_timeout task: "none", "armed" or "fired"
  clock,              \* seconds elapsed since the watcher was armed
  sentTo,             \* the port the child's datagram went to, as an Option
  sentBuf,            \* the text of that datagram
  running,            \* how many spawned commands of each kind are running
  drains,             \* history: the drains of the buffer completed so far
  tdDone,             \* history: the teardown phases of iterations that ended with code 0
  customSent,         \* history: the datagrams the measured commands have sent
  cgRuns,             \* history: the cachegrind runs started
  doneInTime,         \* history: the measured command of this child ended
                      \* while its armed timer had not yet elapsed
  sotStatus,          \* history: the status the last setup or teardown
                      \* command ended with (line 30 of subproc.rs)
  bufDgrams,          \* history: the datagrams appended to the buffer since
                      \* a drain last cleared it
  readDgrams,         \* history: of these, the ones appended before the
                      \* last read of a drain
  samples,            \* what a run of the measured command uses, and how long it takes
  reaped,             \* getrusage(RUSAGE_CHILDREN) in the per-iteration child
  rusage_start,       \* run_test: the first sample
  fileConfig,         \* get_config: the value read from the configuration file
  SIRUN_VARIANT,      \* the environment variable of the top-level process
  resolved,           \* main_main: what get_config returned
  variantsLeft,       \* run_all_variants: the identifiers not yet iterated
  children,           \* run_all_variants: the child invocations started so far
  stdin_lines,        \* summarize: the lines of the standard input
  nread,              \* summarize: how many of them have been read
  result_data         \* summarize: result_data

vars ==
  <<config, valgrind, SIRUN_STATSD_PORT, pc, exitCode, err, typ, inCg, code,
    attempts, status, udp_string, metrics, iterations, output, instructions,
    stdout, lpc, boundPort, statsd_started, statsd_buf, sock, cpc, cenv,
    cstatus, cexit, cmetrics, watcher, clock, sentTo, sentBuf, running,
    drains, tdDone, customSent, cgRuns, doneInTime, sotStatus, bufDgrams, readDgrams, samples, reaped, rusage_start, fileConfig, SIRUN_VARIANT, resolved,
    variantsLeft, children, stdin_lines, nread, result_data>>

mainVars ==
  <<pc, exitCode, err, typ, inCg, code, attempts, status, udp_string, metrics,
    iterations, output, instructions, stdout>>
listenerVars == <<lpc, boundPort>>
childVars ==
  <<cpc, cenv, cstatus, cexit, cmetrics, watcher, clock, sentTo, sentBuf,
    reaped, rusage_start>>
inputVars == <<config, valgrind, samples>>
dgramVars == <<bufDgrams, readDgrams>>
histVars == <<drains, tdDone, customSent, cgRuns, doneInTime, sotStatus, dgramVars>>
fanVars == <<fileConfig, SIRUN_VARIANT, resolved, variantsLeft, children>>
\* the state of the other modes of main_main (fan-out, summarize)
sumVars == <<stdin_lines, nread, result_data>>
modeVars == <<fanVars, sumVars>>

(***************************************************************************)
(* The configuration file and its resolution: get_config, apply_config     *)
(* and try_from (config.rs lines 40-60, 103-156, 158-219).  Of the keys of *)
(* a configuration `run` and `iterations` are kept.                        *)
(***************************************************************************)
\* what a configuration value (the file, or one entry of `variants`) holds
Overlays == [run : {None, Some("a"), Some("b")}, iterations : {None, Some(2)}]

\* the `variants` key: absent, a sequence of entries, a mapping of keys to
\* entries (in the order of the file), or a value that is neither
NoVariants == [kind |-> "absent", items |-> <<>>]
ScalarVariants == [kind |-> "scalar", items |-> <<>>]
ArrayOf(items) == [kind |-> "array", items |-> items]
MappingOf(items) == [kind |-> "object", items |-> items]
RECURSIVE SeqsUpTo(_, _)
SeqsUpTo(S, n) ==
  IF n = 0 THEN {<<>>}
  ELSE LET shorter == SeqsUpTo(S, n - 1)
       IN shorter \cup {Append(q, x) : q \in shorter, x \in S}
ObjectKeys == {"x", "1"}
KeySeqs == {ks \in SeqsUpTo(ObjectKeys, 2) : \A i, j \in DOMAIN ks : ks[i] = ks[j] => i = j}
VariantsValues ==
  {NoVariants, ScalarVariants}
    \cup {ArrayOf(items) : items \in SeqsUpTo(Overlays, MaxVariants)}
    \cup UNION {{MappingOf([i \in DOMAIN ks |-> [key |-> ks[i], val |-> vs[i]]]) :
                   vs \in [DOMAIN ks -> Overlays]} : ks \in KeySeqs}
FileConfigs == [base : {o \in Overlays : ~o.iterations.some}, variants : VariantsValues]

\* str::parse::<usize>(): digits, with an optional leading "+"; leading zeros
\* are accepted, a sign "-" and anything else is an Err
UsizeTexts(n) == {ToString(n), "+" \o ToString(n), "0" \o ToString(n)}
ParseUsize(s) ==
  IF \E n \in 0..(MaxVariants + 1) : s \in UsizeTexts(n)
  THEN Some(CHOOSE n \in 0..(MaxVariants + 1) : s \in UsizeTexts(n))
  ELSE None
\* the values of SIRUN_VARIANT tried
VariantKeys == {ToString(n) : n \in 0..MaxVariants} \cup {"+1", "01", "-1", "x"}

\* the ProtoConfig of lines 159-170
DefaultConfig == [variant |-> None, run |-> None, iterations |-> 1, variants |-> None]
\* apply_config: a key that is present overrides
apply_config(cfg, val) ==
  [cfg EXCEPT !.run = IF val.run.some THEN val.run ELSE @,
              !.iterations = IF val.iterations.some THEN val.iterations.val ELSE @]
Ok(cfg) == [ok |-> TRUE, err |-> "", config |-> cfg]
Err(e) == [ok |-> FALSE, err |-> e, config |-> DefaultConfig]
\* TryFrom<ProtoConfig> for Config
try_into(cfg) == IF cfg.run.some THEN Ok(cfg) ELSE Err("'run' must be provided")
\* the identifiers of lines 180-191
VariantIds(variants) ==
  IF variants.kind = "array"
  THEN [i \in DOMAIN variants.items |-> ToString(i - 1)]
  ELSE [i \in DOMAIN variants.items |-> variants.items[i].key]
\* Mapping::get
MappingGet(items, k) ==
  IF \E i \in DOMAIN items : items[i].key = k
  THEN Some(items[CHOOSE i \in DOMAIN items : items[i].key = k].val)
  ELSE None
\* the selection with the entries counted from 1
SelectVariantOneBased(variants, variant_key) ==
  IF variants.kind = "array"
  THEN LET id == ParseUsize(variant_key)
       IN IF ~id.some THEN Err("invalid digit found in string")
          ELSE IF ~(Len(variants.items) >= id.val /\ id.val >= 1)
          THEN Err("variant index does not exist in array")
          ELSE Ok(variants.items[id.val])
  ELSE IF variants.kind = "object"
  THEN LET val == MappingGet(variants.items, variant_key)
       IN IF val.some THEN Ok(val.val) ELSE Err("variant key does not exist in object")
  ELSE Err("variants must be array or object")

\* lines 199-214: the entry the key selects, as a Result
SelectVariant(variants, variant_key) ==
  IF variants.kind = "array"
  THEN LET id == ParseUsize(variant_key)
       IN IF ~id.some THEN Err("invalid digit found in string")
          ELSE IF ~(Len(variants.items) > id.val)
          THEN Err("variant index does not exist in array")
          ELSE Ok(variants.items[id.val + 1])
  ELSE IF variants.kind = "object"
  THEN LET val == MappingGet(variants.items, variant_key)
       IN IF val.some THEN Ok(val.val) ELSE Err("variant key does not exist in object")
  ELSE Err("variants must be array or object")
get_config(file, env_variant) ==
  LET proto == apply_config(DefaultConfig, file.base)
      variants == file.variants
  IN IF variants.kind = "absent" THEN try_into(proto)
     ELSE IF ~env_variant.some
     THEN IF variants.kind \in {"array", "object"}
          THEN try_into([proto EXCEPT !.variants = Some(VariantIds(variants))])
          ELSE Err("variants must be an array or object")
     ELSE LET config_json == SelectVariant(variants, env_variant.val)
          IN IF ~config_json.ok THEN Err(config_json.err)
             ELSE try_into(apply_config([proto EXCEPT !.variant = env_variant],
                                        config_json.config))

\* an invocation that does not resolve variants
NoFanOut ==
  /\ fileConfig = [base |-> [run |-> Some("a"), iterations |-> None], variants |-> NoVariants]
  /\ SIRUN_VARIANT = None
  /\ resolved = Ok(DefaultConfig)
  /\ variantsLeft = <<>>
  /\ children = <<>>

(***************************************************************************)
(* Resource usage: rusage.rs.  getrusage(RUSAGE_CHILDREN) reports, for the *)
(* calling process, the times summed over the children it has waited for   *)
(* and the greatest of their resident set sizes.                           *)
(***************************************************************************)
ZeroRusage == [user_time |-> 0, system_time |-> 0, max_res_size |-> 0]
Max(a, b) == IF a >= b THEN a ELSE b
\* the kernel accounts the usage u of a child that was waited for
Account(acc, u) ==
  [user_time |-> acc.user_time + u.user_time,
   system_time |-> acc.system_time + u.system_time,
   max_res_size |-> Max(acc.max_res_size, u.max_res_size)]
\* the subtraction with its operands swapped
RusageSubSwapped(a, b) ==
  [user_time |-> b.user_time - a.user_time,
   system_time |-> b.system_time - a.system_time,
   max_res_size |-> b.max_res_size - a.max_res_size]
\* impl Sub for Rusage
RusageSub(a, b) ==
  [user_time |-> a.user_time - b.user_time,
   system_time |-> a.system_time - b.system_time,
   max_res_size |-> a.max_res_size - b.max_res_size]
FixedSamples ==
  [user_time |-> SampleUser, system_time |-> SampleSystem,
   max_res_size |-> SampleMaxRss, wall |-> SampleWall]
SampleSets ==
  [user_time : 0..SampleUser, system_time : 0..SampleSystem,
   max_res_size : {SampleMaxRss}, wall : 1..SampleWall]

(***************************************************************************)
(* Summary mode: summarize.rs.  A line of the standard input is what       *)
(* serde_json::from_str::<MetricMap> makes of it: a map from keys to       *)
(* values, or no map at all.  A Num is a fraction, a Str is [str |-> s].   *)
(***************************************************************************)
Str(x) == [str |-> x]
IsNum(v) == "n" \in DOMAIN v
MapRemove(m, k) == [x \in (DOMAIN m) \ {k} |-> m[x]]

\* the non-finite values of f64
Infinity == [n |-> 1, d |-> 0]
NaN == [n |-> 0, d |-> 0]

\* arithmetic of the non-negative f64 values the summarizer meets
RLess(a, b) == a.n * b.d < b.n * a.d
RAdd(a, b) == Frac(a.n * b.d + b.n * a.d, a.d * b.d)
RMul(a, b) ==
  IF a.d = 0 \/ b.d = 0
    THEN (IF a.n = 0 \/ b.n = 0 THEN NaN ELSE Infinity)
    ELSE Frac(a.n * b.n, a.d * b.d)
RDiv(a, b) ==
  IF a.d = 0 THEN (IF b.d = 0 \/ a.n = 0 THEN NaN ELSE Infinity)
  ELSE IF b.d = 0 THEN (IF b.n = 0 THEN NaN ELSE Num(0))
  ELSE IF b.n = 0 THEN (IF a.n = 0 THEN NaN ELSE Infinity)
  ELSE Frac(a.n * b.d, a.d * b.n)
\* (x - m)^2: the square of the distance, whichever of the two is larger
SqDiff(x, m) ==
  LET hi == IF x.n * m.d >= m.n * x.d THEN x.n * m.d - m.n * x.d
            ELSE m.n * x.d - x.n * m.d
  IN Frac(hi * hi, x.d * m.d * x.d * m.d)
\* f64::min and f64::max
FMin(a, b) == IF a.d = 0 THEN b ELSE IF b.d = 0 THEN a ELSE IF RLess(b, a) THEN b ELSE a
FMax(a, b) == IF a.d = 0 THEN a ELSE IF b.d = 0 THEN b ELSE IF RLess(a, b) THEN b ELSE a

RECURSIVE Sum(_)
Sum(items) == IF items = <<>> THEN Num(0) ELSE RAdd(Head(items), Sum(Tail(items)))

\* summarize.rs lines 12-16
mean(items) == RDiv(Sum(items), Num(Len(items)))

\* f64::sqrt: exact on the squares, an irrational root is kept as a surd
IsSquare(k) == \E r \in 0..k : r * r = k
Root(k) == CHOOSE r \in 0..k : r * r = k
FSqrt(v) ==
  IF v.d = 0 THEN v
  ELSE IF IsSquare(v.n) /\ IsSquare(v.d) THEN [n |-> Root(v.n), d |-> Root(v.d)]
  ELSE [surd |-> v]

\* the sample standard deviation: the squared deviations over one less than
\* their number
stddev_sample(m, items) ==
  FSqrt(RDiv(Sum([i \in 1..Len(items) |-> SqDiff(items[i], m)]),
             Num(Len(items) - 1)))

\* summarize.rs lines 18-20
stddev(m, items) == FSqrt(mean([i \in 1..Len(items) |-> SqDiff(items[i], m)]))

\* summarize.rs line 44: (s / m) * 100.0
stddev_pct(s, m) ==
  IF IsNum(s) THEN (LET q == RDiv(s, m) IN IF q.d = 0 THEN q ELSE RMul(q, Num(100)))
  ELSE [surd |-> RMul(RDiv(s.surd, RMul(m, m)), Num(10000))]

\* summarize.rs lines 47 and 51: both folds start from f64::INFINITY
RECURSIVE FoldMin(_, _)
FoldMin(a, items) ==
  IF items = <<>> THEN a ELSE FoldMin(FMin(a, Head(items)), Tail(items))
RECURSIVE FoldMax(_, _)
FoldMax(a, items) ==
  IF items = <<>> THEN a ELSE FoldMax(FMax(a, Head(items)), Tail(items))

\* summarize.rs lines 23-36: the values of key k, in the order of the iterations
RECURSIVE Collect(_, _)
Collect(its, k) ==
  IF its = <<>> THEN <<>>
  ELSE (IF k \in DOMAIN Head(its) THEN <<Head(its)[k]>> ELSE <<>>)
       \o Collect(Tail(its), k)
StatKeys(its) == UNION {DOMAIN its[i] : i \in 1..Len(its)}

\* summarize.rs lines 37-57
statistics(items) ==
  LET m == mean(items)
      s == stddev(m, items)
  IN [mean |-> m, stddev |-> s, stddev_pct |-> stddev_pct(s, m),
      min |-> FoldMin(Infinity, items), max |-> FoldMax(Infinity, items)]
summary(its) == [k \in StatKeys(its) |-> statistics(Collect(its, k))]

\* metric_value.rs lines 14-19: as_f64 panics on a value that is no Num
SummaryPanics(its) ==
  \E i \in 1..Len(its) : \E k \in DOMAIN its[i] : ~IsNum(its[i][k])

\* the input lines
BadJson == [ok |-> FALSE]
Json(m) == [ok |-> TRUE, data |-> m]
IterMaps ==
  {("x" :> Num(v)) : v \in 0..MaxObs}
    \cup {("y" :> Num(2)), EmptyMap, ("x" :> Str("fast"))}
IterLists == SeqsUpTo(IterMaps, 2)
CompleteLines ==
  {Json(("name" :> "a") @@ ("variant" :> v) @@ ("iterations" :> its) @@ e) :
     v \in {"0", "1"}, its \in IterLists,
     e \in {EmptyMap, ("version" :> Str("v1"))}}
IncompleteLines ==
  {BadJson,
   Json(("variant" :> "0") @@ ("iterations" :> <<("x" :> Num(1))>>)),
   Json(("name" :> "a") @@ ("iterations" :> <<("x" :> Num(1))>>)),
   Json(("name" :> "b") @@ ("variant" :> "0") @@ ("version" :> Str("v1")))}
InputLines == CompleteLines \cup IncompleteLines

\* summarize.rs lines 65-98: what one line does to result_data
LinePanics(line) ==
  /\ line.ok
  /\ {"name", "variant", "iterations"} \subseteq DOMAIN line.data
  /\ SummaryPanics(line.data["iterations"])
ProcessLine(rd, line) ==
  IF ~line.ok THEN rd
  ELSE
    LET json_data == line.data IN
    IF "name" \notin DOMAIN json_data THEN rd
    ELSE IF "variant" \notin DOMAIN json_data THEN rd
    ELSE
      LET name == json_data["name"]
          variant == json_data["variant"]
          rd1 == IF name \in DOMAIN rd THEN rd ELSE MapInsert(rd, name, EmptyMap)
          rest == MapRemove(MapRemove(MapRemove(json_data, "name"), "variant"),
                            "iterations")
      IN IF "iterations" \notin DOMAIN json_data THEN rd1
         ELSE MapInsert(rd1, name,
                MapInsert(rd1[name], variant,
                  MapInsert(rest, "summary", summary(json_data["iterations"]))))

\* serde_json writes a non-finite number as null
Null == [null |-> TRUE]
JsonValue(v) == IF IsNum(v) /\ v.d = 0 THEN Null ELSE v
to_string_pretty(rd) ==
  [name \in DOMAIN rd |->
    [variant \in DOMAIN rd[name] |->
      [k \in DOMAIN rd[name][variant] |->
        IF k = "summary"
          THEN [key \in DOMAIN rd[name][variant][k] |->
                 [st \in DOMAIN rd[name][variant][k][key] |->
                    JsonValue(rd[name][variant][k][key][st])]]
          ELSE rd[name][variant][k]]]]

\* the process is not in summary mode
NoSummarize == stdin_lines = <<>> /\ nread = 0 /\ result_data = EmptyMap

Kinds == {"setup", "run", "teardown", "profile"}
NoStatus == [exited |-> FALSE, n |-> 0]

Configs ==
  [iterations : 1..MaxIterations,
   setup : BOOLEAN,
   teardown : BOOLEAN,
   timeout : {None, Some(MaxTimeout)},
   cachegrind : BOOLEAN]

\* what the cachegrind run printed: the sum of its "I   refs:" lines, or a
\* line whose last field is no number
CgOutputs == {[bad |-> FALSE, refs |-> 0], [bad |-> FALSE, refs |-> 3], [bad |-> TRUE, refs |-> 0]}

Init ==
  /\ config \in Configs
  /\ valgrind = FALSE
  /\ SIRUN_STATSD_PORT \in {None, Some(StatsdPort), Some(OtherPort)}
  /\ pc = "start"
  /\ exitCode = Running
  /\ err = ""
  /\ typ = "setup"
  /\ inCg = FALSE
  /\ code = 1
  /\ attempts = 0
  /\ status = 0
  /\ udp_string = <<>>
  /\ metrics = EmptyMap
  /\ iterations = <<>>
  /\ output = None
  /\ instructions = None
  /\ stdout = <<>>
  /\ lpc = "none"
  /\ boundPort = 0
  /\ statsd_started = {}
  /\ statsd_buf = <<>>
  /\ sock = <<>>
  /\ cpc = "none"
  /\ cenv = None
  /\ cstatus = NoStatus
  /\ cexit = Running
  /\ cmetrics = EmptyMap
  /\ watcher = "none"
  /\ clock = 0
  /\ sentTo = None
  /\ sentBuf = <<>>
  /\ running = [k \in Kinds |-> 0]
  /\ drains = 0
  /\ tdDone = 0
  /\ customSent = 0
  /\ cgRuns = 0
  /\ doneInTime = FALSE
  /\ sotStatus = NoStatus
  /\ bufDgrams = <<>>
  /\ readDgrams = <<>>
  /\ samples = FixedSamples
  /\ reaped = ZeroRusage
  /\ rusage_start = ZeroRusage
  /\ NoFanOut
  /\ NoSummarize

(***************************************************************************)
(* The top-level process: main_main (lines 232-300 of main.rs).            *)
(***************************************************************************)
Alive == exitCode = Running

\* main returns Err(e): the process ends with exit code 1
Fail(e) ==
  /\ pc' = "exited"
  /\ exitCode' = ErrExit
  /\ err' = e

\* std::process::exit(c)
Exit(c) ==
  /\ pc' = "exited"
  /\ exitCode' = c
  /\ err' = err

\* the command run_setup_or_teardown picks for typ: Some or None
CommandArr(t) == IF t = "setup" THEN config.setup ELSE config.teardown

\* the teardown of the profiling block leading back to the test of line 248
AfterSetupOrTeardownReprofile(t, cg) ==
  IF t = "setup"
  THEN (IF cg THEN "cg_run" ELSE "spawn_child")
  ELSE (IF cg THEN "cg_check" ELSE "push")

\* where main_main continues when run_setup / run_teardown returns Ok
AfterSetupOrTeardown(t, cg) ==
  IF t = "setup"
  THEN (IF cg THEN "cg_run" ELSE "spawn_child")
  ELSE (IF cg THEN "cg_parse" ELSE "push")

\* run_setup_or_teardown returning at once, as if SIRUN_SKIP_SETUP were set
EnterSkipping(t, cg) ==
  /\ typ' = t
  /\ inCg' = cg
  /\ UNCHANGED <<code, attempts>>
  /\ pc' = AfterSetupOrTeardown(t, cg)

\* the call of run_setup_or_teardown(t, config) from the block cg: the early
\* return for a command that is not configured, else code = 1, attempts = 0
EnterSetupOrTeardown(t, cg) ==
  /\ typ' = t
  /\ inCg' = cg
  /\ IF CommandArr(t)
     THEN /\ code' = 1
          /\ attempts' = 0
          /\ pc' = "sot_loop"
     ELSE /\ UNCHANGED <<code, attempts>>
          /\ pc' = AfterSetupOrTeardown(t, cg)

\* lines 234-238: create the barrier and the buffer, spawn the listener, wait
Start ==
  /\ Alive /\ pc = "start"
  /\ lpc' = "bind"
  /\ statsd_started' = statsd_started \cup {"main"}
  /\ pc' = "barrier"
  /\ UNCHANGED <<exitCode, err, typ, inCg, code, attempts, status, udp_string,
                 metrics, iterations, output, instructions, stdout>>
  /\ UNCHANGED <<modeVars, inputVars, histVars, SIRUN_STATSD_PORT, boundPort, statsd_buf, sock,
                 childVars, running>>

\* a barrier for one party: Barrier::new(1)
BarrierOfOne == statsd_started # {}

\* Barrier::wait returns once both parties have called it
BarrierOpen == statsd_started = {"main", "listener"}

\* line 238: statsd_started.wait() returns in the main task
MainPassBarrier ==
  /\ Alive /\ pc = "barrier"
  /\ BarrierOpen
  /\ pc' = "loop"
  /\ UNCHANGED <<exitCode, err, typ, inCg, code, attempts, status, udp_string,
                 metrics, iterations, output, instructions, stdout>>
  /\ UNCHANGED <<modeVars, inputVars, histVars, SIRUN_STATSD_PORT, listenerVars, statsd_started,
                 statsd_buf, sock, childVars, running>>

\* the loop 0..=config.iterations
MoreIterationsInclusive == Len(iterations) <= config.iterations

\* the loop bound of line 241
MoreIterations == Len(iterations) < config.iterations

\* line 241 and the start of run_iteration (lines 180-183): the next
\* iteration calls run_setup; after the last one the loop ends (line 246)
LoopHead ==
  /\ Alive /\ pc = "loop"
  /\ IF MoreIterations
     THEN EnterSetupOrTeardown("setup", FALSE)
     ELSE /\ pc' = "cg_check"
          /\ UNCHANGED <<typ, inCg, code, attempts>>
  /\ UNCHANGED <<exitCode, err, status, udp_string, metrics, iterations,
                 output, instructions, stdout>>
  /\ UNCHANGED <<modeVars, inputVars, histVars, SIRUN_STATSD_PORT, listenerVars, statsd_started,
                 statsd_buf, sock, childVars, running>>

(***************************************************************************)
(* run_setup_or_teardown (subproc.rs lines 10-49).                         *)
(***************************************************************************)
\* the ceiling tested one attempt late
ExhaustedLate(n) == n = MaxAttempts + 1

\* the ceiling of line 27
Exhausted(n) == n = MaxAttempts

\* lines 26-30: code != 0 and the ceiling is not reached: run the command
SotSpawn ==
  /\ Alive /\ pc = "sot_loop"
  /\ code # 0
  /\ ~Exhausted(attempts)
  /\ running' = [running EXCEPT ![typ] = @ + 1]
  /\ pc' = "sot_wait"
  /\ UNCHANGED <<exitCode, err, typ, inCg, code, attempts, status, udp_string,
                 metrics, iterations, output, instructions, stdout>>
  /\ UNCHANGED <<modeVars, inputVars, histVars, SIRUN_STATSD_PORT, listenerVars, statsd_started,
                 statsd_buf, sock, childVars>>

\* lines 27-29: the ceiling is reached: bail
SotExhausted ==
  /\ Alive /\ pc = "sot_loop"
  /\ code # 0
  /\ Exhausted(attempts)
  /\ Fail(typ \o " script did not complete successfully")
  /\ UNCHANGED <<typ, inCg, code, attempts, status, udp_string, metrics,
                 iterations, output, instructions, stdout>>
  /\ UNCHANGED <<modeVars, inputVars, histVars, SIRUN_STATSD_PORT, listenerVars, statsd_started,
                 statsd_buf, sock, childVars, running>>

\* line 26 with code = 0: the loop ends and the function returns Ok (its
\* local attempts is gone)
SotDone ==
  /\ Alive /\ pc = "sot_loop"
  /\ code = 0
  /\ pc' = AfterSetupOrTeardown(typ, inCg)
  /\ attempts' = 0
  /\ tdDone' = IF typ = "teardown" /\ ~inCg THEN tdDone + 1 ELSE tdDone
  /\ UNCHANGED <<exitCode, err, typ, inCg, code, status, udp_string,
                 metrics, iterations, output, instructions, stdout>>
  /\ UNCHANGED <<modeVars, inputVars, drains, customSent, cgRuns, doneInTime, sotStatus, dgramVars, SIRUN_STATSD_PORT, listenerVars, statsd_started,
                 statsd_buf, sock, childVars, running>>

\* a command ended by a signal counted as one more failed attempt
SotExitRetryOnSignal(st) ==
  /\ Alive /\ pc = "sot_wait"
  /\ running' = [running EXCEPT ![typ] = @ - 1]
  /\ sotStatus' = st
  /\ code' = IF st.exited THEN st.n ELSE 1
  /\ attempts' = IF code' # 0 THEN attempts + 1 ELSE attempts
  /\ pc' = "sot_loop"
  /\ UNCHANGED <<exitCode, err>>
  /\ UNCHANGED <<typ, inCg, status, udp_string, metrics, iterations, output,
                 instructions, stdout>>
  /\ UNCHANGED <<modeVars, inputVars, drains, tdDone, customSent, cgRuns, doneInTime,
                 dgramVars, SIRUN_STATSD_PORT, listenerVars, statsd_started,
                 statsd_buf, sock, childVars>>

\* lines 30-45: the command ends with status st
SotExit(st) ==
  /\ Alive /\ pc = "sot_wait"
  /\ running' = [running EXCEPT ![typ] = @ - 1]
  /\ sotStatus' = st
  /\ LET maybe_code == StatusCode(st)
     IN IF maybe_code.some
        THEN /\ code' = maybe_code.val
             /\ attempts' = IF maybe_code.val # 0 THEN attempts + 1 ELSE attempts
             /\ pc' = "sot_loop"
             /\ UNCHANGED <<exitCode, err>>
        ELSE /\ Fail(typ \o " script was terminated by signal")
             /\ UNCHANGED <<code, attempts>>
  /\ UNCHANGED <<typ, inCg, status, udp_string, metrics, iterations, output,
                 instructions, stdout>>
  /\ UNCHANGED <<modeVars, inputVars, drains, tdDone, customSent, cgRuns, doneInTime,
                 dgramVars, SIRUN_STATSD_PORT, listenerVars, statsd_started,
                 statsd_buf, sock, childVars>>

(***************************************************************************)
(* run_iteration (main.rs lines 176-199).                                  *)
(***************************************************************************)
\* lines 185-189: spawn the program itself with SIRUN_ITERATION set
SpawnChild ==
  /\ Alive /\ pc = "spawn_child"
  /\ pc' = "wait_child"
  /\ cpc' = "start"
  /\ cenv' = SIRUN_STATSD_PORT
  /\ cstatus' = NoStatus
  /\ cexit' = Running
  /\ cmetrics' = EmptyMap
  /\ watcher' = "none"
  /\ clock' = 0
  /\ sentTo' = None
  /\ sentBuf' = <<>>
  /\ reaped' = ZeroRusage
  /\ rusage_start' = ZeroRusage
  /\ doneInTime' = FALSE
  /\ UNCHANGED <<exitCode, err, typ, inCg, code, attempts, status, udp_string,
                 metrics, iterations, output, instructions, stdout>>
  /\ UNCHANGED <<modeVars, inputVars, drains, tdDone, customSent, cgRuns, sotStatus, dgramVars, SIRUN_STATSD_PORT, listenerVars, statsd_started,
                 statsd_buf, sock, running>>

\* the test of lines 168 and 191
IsFatal(c) == c # 0 /\ c <= FatalCeiling

\* lines 189-193: the child has ended; a fatal code ends this process too.
\* The child's own state is gone with it (its last status and exit code are
\* kept for the properties).
ReapChild ==
  /\ Alive /\ pc = "wait_child"
  /\ cpc = "exited"
  /\ status' = cexit
  /\ IF IsFatal(cexit)
     THEN /\ Exit(cexit)
          /\ UNCHANGED <<cpc, watcher, clock, cmetrics, sentTo, sentBuf,
                         reaped, rusage_start>>
     ELSE /\ pc' = "drain_read"
          /\ cpc' = "none"
          /\ watcher' = "none"
          /\ clock' = 0
          /\ cmetrics' = EmptyMap
          /\ sentTo' = None
          /\ sentBuf' = <<>>
          /\ reaped' = ZeroRusage
          /\ rusage_start' = ZeroRusage
          /\ UNCHANGED <<exitCode, err>>
  /\ UNCHANGED <<typ, inCg, code, attempts, udp_string, metrics, iterations,
                 output, instructions, stdout>>
  /\ UNCHANGED <<modeVars, inputVars, histVars, SIRUN_STATSD_PORT, listenerVars, statsd_started,
                 statsd_buf, sock, cenv, cstatus, cexit, running>>

\* statsd.rs line 38: udp_data.read().await.clone()
DrainRead ==
  /\ Alive /\ pc = "drain_read"
  /\ udp_string' = statsd_buf
  /\ readDgrams' = bufDgrams
  /\ pc' = "drain_clear"
  /\ UNCHANGED <<exitCode, err, typ, inCg, code, attempts, status, metrics,
                 iterations, output, instructions, stdout>>
  /\ UNCHANGED <<modeVars, inputVars, drains, tdDone, customSent, cgRuns, doneInTime,
                 sotStatus, bufDgrams, SIRUN_STATSD_PORT, listenerVars, statsd_started,
                 statsd_buf, sock, childVars, running>>

\* a drain that leaves the buffer as it is
DrainClearKeeps ==
  /\ Alive /\ pc = "drain_clear"
  /\ statsd_buf' = statsd_buf
  /\ bufDgrams' = <<>>
  /\ drains' = drains + 1
  /\ pc' = "drain_parse"
  /\ UNCHANGED <<exitCode, err, typ, inCg, code, attempts, status, udp_string,
                 metrics, iterations, output, instructions, stdout>>
  /\ UNCHANGED <<modeVars, inputVars, tdDone, customSent, cgRuns, doneInTime, sotStatus, readDgrams, SIRUN_STATSD_PORT, listenerVars, statsd_started,
                 sock, childVars, running>>

\* statsd.rs line 40: udp_data.write().await.clear()
DrainClear ==
  /\ Alive /\ pc = "drain_clear"
  /\ statsd_buf' = <<>>
  /\ bufDgrams' = <<>>
  /\ drains' = drains + 1
  /\ pc' = "drain_parse"
  /\ UNCHANGED <<exitCode, err, typ, inCg, code, attempts, status, udp_string,
                 metrics, iterations, output, instructions, stdout>>
  /\ UNCHANGED <<modeVars, inputVars, tdDone, customSent, cgRuns, doneInTime, sotStatus, readDgrams, SIRUN_STATSD_PORT, listenerVars, statsd_started,
                 sock, childVars, running>>

\* statsd.rs lines 41-51, then main.rs line 196: the metrics of the lines
\* read, and the call of run_teardown; a value that does not parse is an Err
DrainParse ==
  /\ Alive /\ pc = "drain_parse"
  /\ LET r == ParseMetrics(udp_string)
     IN IF r.ok
        THEN /\ metrics' = r.metrics
             /\ EnterSetupOrTeardown("teardown", FALSE)
             /\ UNCHANGED <<exitCode, err>>
        ELSE /\ Fail("invalid float literal")
             /\ UNCHANGED <<metrics, typ, inCg, code, attempts>>
  /\ UNCHANGED <<status, udp_string, iterations, output, instructions, stdout>>
  /\ UNCHANGED <<modeVars, inputVars, histVars, SIRUN_STATSD_PORT, listenerVars, statsd_started,
                 statsd_buf, sock, childVars, running>>

\* what line 242 pushes for an iteration that returned these metrics
Pushed(its, m) == Append(its, m)

\* main.rs lines 198 and 242-244: run_iteration returns, the result is pushed;
\* the iteration is over, and what was kept of its child is dropped
Push ==
  /\ Alive /\ pc = "push"
  /\ iterations' = Pushed(iterations, metrics)
  /\ pc' = "loop"
  /\ cstatus' = NoStatus
  /\ cexit' = Running
  /\ UNCHANGED <<exitCode, err, typ, inCg, code, attempts, status, udp_string,
                 metrics, output, instructions, stdout>>
  /\ UNCHANGED <<modeVars, inputVars, reaped, rusage_start, histVars, SIRUN_STATSD_PORT, listenerVars, statsd_started,
                 statsd_buf, sock, cpc, cenv, cmetrics, watcher, clock, sentTo,
                 sentBuf, running>>

(***************************************************************************)
(* The cachegrind block and the report (main.rs lines 248-299).            *)
(***************************************************************************)
\* line 248: profile when configured and valgrind is found on the PATH
CgCheck(found) ==
  /\ Alive /\ pc = "cg_check"
  /\ valgrind' = found
  /\ IF config.cachegrind /\ found
     THEN EnterSetupOrTeardown("setup", TRUE)
     ELSE /\ pc' = "report"
          /\ UNCHANGED <<typ, inCg, code, attempts>>
  /\ UNCHANGED <<exitCode, err, status, udp_string, metrics, iterations,
                 output, instructions, stdout>>
  /\ UNCHANGED <<modeVars, config, samples, histVars, SIRUN_STATSD_PORT, listenerVars, statsd_started,
                 statsd_buf, sock, childVars, running>>

\* lines 261-265: spawn valgrind on the measured command
CgRun ==
  /\ Alive /\ pc = "cg_run"
  /\ running' = [running EXCEPT !["profile"] = @ + 1]
  /\ cgRuns' = cgRuns + 1
  /\ pc' = "cg_wait"
  /\ UNCHANGED <<exitCode, err, typ, inCg, code, attempts, status, udp_string,
                 metrics, iterations, output, instructions, stdout>>
  /\ UNCHANGED <<modeVars, inputVars, drains, tdDone, customSent, doneInTime, sotStatus, dgramVars, SIRUN_STATSD_PORT, listenerVars, statsd_started,
                 statsd_buf, sock, childVars>>

\* lines 265-266: valgrind has ended with this output; run_teardown is called
CgExit(out) ==
  /\ Alive /\ pc = "cg_wait"
  /\ running' = [running EXCEPT !["profile"] = @ - 1]
  /\ output' = Some(out)
  /\ EnterSetupOrTeardown("teardown", TRUE)
  /\ UNCHANGED <<exitCode, err, status, udp_string, metrics, iterations,
                 instructions, stdout>>
  /\ UNCHANGED <<modeVars, inputVars, histVars, SIRUN_STATSD_PORT, listenerVars, statsd_started,
                 statsd_buf, sock, childVars>>

\* the test with a count of 0 let through
NoInstructionsBelowZero(n) == n < 0

\* the test of line 281
NoInstructions(n) == n <= 0

\* lines 267-285: sum the instruction counts of the output
CgParse ==
  /\ Alive /\ pc = "cg_parse"
  /\ IF output.val.bad
     THEN /\ Exit(PanicExit)
          /\ UNCHANGED instructions
     ELSE IF NoInstructions(output.val.refs)
     THEN /\ Exit(BadCachegrindExit)
          /\ UNCHANGED instructions
     ELSE /\ instructions' = Some(output.val.refs)
          /\ pc' = "report"
          /\ UNCHANGED <<exitCode, err>>
  /\ UNCHANGED <<typ, inCg, code, attempts, status, udp_string, metrics,
                 iterations, output, stdout>>
  /\ UNCHANGED <<modeVars, inputVars, histVars, SIRUN_STATSD_PORT, listenerVars, statsd_started,
                 statsd_buf, sock, childVars, running>>

\* the RunResult of lines 246 and 285
RunResult == [iterations |-> iterations, instructions |-> instructions]

\* lines 298-299: print the result line and return Ok
Report ==
  /\ Alive /\ pc = "report"
  /\ stdout' = Append(stdout, RunResult)
  /\ pc' = "exited"
  /\ exitCode' = 0
  /\ UNCHANGED <<err, typ, inCg, code, attempts, status, udp_string, metrics,
                 iterations, output, instructions>>
  /\ UNCHANGED <<modeVars, inputVars, histVars, SIRUN_STATSD_PORT, listenerVars, statsd_started,
                 statsd_buf, sock, childVars, running>>

(***************************************************************************)
(* The listener task: statsd_listener (statsd.rs lines 10-32).             *)
(***************************************************************************)
\* line 15: the port asked for, 0 when the variable is not set
AskedPort == IF SIRUN_STATSD_PORT.some THEN SIRUN_STATSD_PORT.val ELSE 0

\* lines 16-22: bind, read the bound port, publish it in the environment
ListenerBind ==
  /\ Alive /\ lpc = "bind"
  /\ boundPort' = IF AskedPort = 0 THEN EphemeralPort ELSE AskedPort
  /\ SIRUN_STATSD_PORT' = Some(boundPort')
  /\ lpc' = "bound"
  /\ UNCHANGED <<modeVars, inputVars, histVars, mainVars, statsd_started, statsd_buf, sock,
                 childVars, running>>

\* lines 17-20: a fixed port that is taken: the bind fails and the task
\* panics. What a panic in a spawned task does is the executor's choice:
\* it ends the task alone, or it aborts the process
ListenerBindFail ==
  /\ Alive /\ lpc = "bind"
  /\ AskedPort # 0
  /\ lpc' = "panicked"
  /\ \/ UNCHANGED <<pc, exitCode, err>>
     \/ Exit(AbortExit)
  /\ UNCHANGED <<typ, inCg, code, attempts, status, udp_string, metrics,
                 iterations, output, instructions, stdout>>
  /\ UNCHANGED <<modeVars, inputVars, histVars, SIRUN_STATSD_PORT, boundPort,
                 statsd_started, statsd_buf, sock, childVars, running>>

\* where the listener is when it calls barrier.wait() (line 23)
ListenerAtWait == lpc = "bound"

\* line 23: barrier.wait() is called
ListenerWait ==
  /\ Alive /\ ListenerAtWait
  /\ statsd_started' = statsd_started \cup {"listener"}
  /\ lpc' = "barrier"
  /\ UNCHANGED <<modeVars, inputVars, histVars, mainVars, SIRUN_STATSD_PORT, boundPort,
                 statsd_buf, sock, childVars, running>>

\* lines 23-31: once barrier.wait() has returned, receive one datagram and
\* append it to the buffer
ListenerRecv ==
  /\ Alive /\ lpc = "barrier"
  /\ BarrierOpen
  /\ sock # <<>>
  /\ statsd_buf' = statsd_buf \o Head(sock)
  /\ bufDgrams' = Append(bufDgrams, Head(sock))
  /\ sock' = Tail(sock)
  /\ UNCHANGED <<modeVars, inputVars, drains, tdDone, customSent, cgRuns, doneInTime,
                 sotStatus, readDgrams, mainVars, SIRUN_STATSD_PORT, listenerVars,
                 statsd_started, childVars, running>>

(***************************************************************************)
(* The per-iteration child: iteration_main, run_test and test_timeout      *)
(* (main.rs lines 150-174 and 302-320).                                    *)
(***************************************************************************)
ChildAlive == cpc \notin {"none", "exited"}

\* lines 157-163: arm the watcher, take the first samples, spawn the command
ChildStart ==
  /\ cpc = "start"
  /\ watcher' = IF config.timeout.some THEN "armed" ELSE "none"
  /\ running' = [running EXCEPT !["run"] = @ + 1]
  /\ cpc' = "running"
  /\ rusage_start' = reaped
  /\ UNCHANGED <<modeVars, inputVars, reaped, histVars, mainVars, SIRUN_STATSD_PORT, listenerVars,
                 statsd_started, statsd_buf, sock, cenv, cstatus, cexit,
                 cmetrics, clock, sentTo, sentBuf>>

\* the delta of the two Rusage samples around the measured command
RusageResult == RusageSub(reaped, rusage_start)

\* lines 163-166: the measured command ends with status st; wall.time is set
CmdExit(st) ==
  /\ cpc = "running"
  /\ running' = [running EXCEPT !["run"] = @ - 1]
  /\ cstatus' = st
  /\ cmetrics' = MapInsert(cmetrics, "wall.time", Num(samples.wall))
  /\ cpc' = "completed"
  /\ reaped' = Account(reaped, samples)
  /\ doneInTime' = (watcher = "armed" /\ clock < config.timeout.val)
  /\ UNCHANGED <<modeVars, inputVars, rusage_start, drains, tdDone, customSent, cgRuns, sotStatus, dgramVars, mainVars, SIRUN_STATSD_PORT, listenerVars,
                 statsd_started, statsd_buf, sock, cenv, cexit, watcher,
                 clock, sentTo, sentBuf>>

\* lines 167-172: no exit code is a panic, a fatal code is exit(status),
\* any other code goes on to get_kernel_metrics
ChildClassify ==
  /\ cpc = "completed"
  /\ LET c == StatusCode(cstatus)
     IN IF ~c.some
        THEN /\ cexit' = PanicExit
             /\ cpc' = "exited"
             /\ UNCHANGED cmetrics
        ELSE IF IsFatal(c.val)
        THEN /\ cexit' = c.val
             /\ cpc' = "exited"
             /\ UNCHANGED cmetrics
        ELSE /\ cmetrics' = get_kernel_metrics(cmetrics["wall.time"].n, RusageResult, cmetrics)
             /\ cpc' = "metrics"
             /\ UNCHANGED cexit
  /\ UNCHANGED <<modeVars, inputVars, reaped, rusage_start, histVars, mainVars, SIRUN_STATSD_PORT, listenerVars,
                 statsd_started, statsd_buf, sock, cenv, cstatus, watcher,
                 clock, sentTo, sentBuf, running>>

\* a datagram to port p reaches the listener's socket when it is bound to p
Deliver(p, dgram) == IF boundPort # 0 /\ p = boundPort THEN Append(sock, dgram) ELSE sock

\* lines 309-318: format the five metrics and send them
ChildSend ==
  /\ cpc = "metrics"
  /\ sentBuf' = KernelDatagram(cmetrics)
  /\ sentTo' = Some(ChildDestPort(cenv))
  /\ sock' = Deliver(ChildDestPort(cenv), sentBuf')
  /\ cpc' = "sent"
  /\ UNCHANGED <<modeVars, inputVars, reaped, rusage_start, histVars, mainVars, SIRUN_STATSD_PORT, listenerVars,
                 statsd_started, statsd_buf, cenv, cstatus, cexit, cmetrics,
                 watcher, clock, running>>

\* line 319: iteration_main returns Ok and the child ends with code 0
ChildReturn ==
  /\ cpc = "sent"
  /\ cexit' = 0
  /\ cpc' = "exited"
  /\ UNCHANGED <<modeVars, inputVars, reaped, rusage_start, histVars, mainVars, SIRUN_STATSD_PORT, listenerVars,
                 statsd_started, statsd_buf, sock, cenv, cstatus, cmetrics,
                 watcher, clock, sentTo, sentBuf, running>>

\* one second passes while the watcher sleeps
Tick ==
  /\ ChildAlive /\ watcher = "armed"
  /\ clock < config.timeout.val
  /\ clock' = clock + 1
  /\ UNCHANGED <<modeVars, inputVars, reaped, rusage_start, histVars, mainVars, SIRUN_STATSD_PORT, listenerVars,
                 statsd_started, statsd_buf, sock, cpc, cenv, cstatus, cexit,
                 cmetrics, watcher, sentTo, sentBuf, running>>

\* test_timeout without its exit(1): the diagnostic is printed and the child
\* goes on
TimeoutFireNoExit ==
  /\ ChildAlive /\ watcher = "armed"
  /\ clock >= config.timeout.val
  /\ watcher' = "fired"
  /\ UNCHANGED <<modeVars, inputVars, reaped, rusage_start, histVars, mainVars, SIRUN_STATSD_PORT, listenerVars,
                 statsd_started, statsd_buf, sock, cpc, cenv, cstatus, cexit,
                 cmetrics, clock, sentTo, sentBuf, running>>

\* lines 151-153: the sleep is over: print the diagnostic and exit(1); the
\* measured command, when it still runs, is left running
TimeoutFire ==
  /\ ChildAlive /\ watcher = "armed"
  /\ clock >= config.timeout.val
  /\ watcher' = "fired"
  /\ cexit' = TimeoutExit
  /\ cpc' = "exited"
  /\ UNCHANGED <<modeVars, inputVars, reaped, rusage_start, histVars, mainVars, SIRUN_STATSD_PORT, listenerVars,
                 statsd_started, statsd_buf, sock, cenv, cstatus, cmetrics,
                 clock, sentTo, sentBuf, running>>

\* a measured command that outlived its child ends on its own
OrphanExit ==
  /\ cpc = "exited" /\ running["run"] > 0
  /\ running' = [running EXCEPT !["run"] = @ - 1]
  /\ UNCHANGED <<modeVars, inputVars, histVars, mainVars, SIRUN_STATSD_PORT, listenerVars,
                 statsd_started, statsd_buf, sock, childVars>>

(***************************************************************************)
(* The specification.                                                      *)
(***************************************************************************)
Next ==
  \/ Start
  \/ MainPassBarrier
  \/ LoopHead
  \/ SotSpawn
  \/ SotExhausted
  \/ SotDone
  \/ \E st \in SotStatuses : SotExit(st)
  \/ SpawnChild
  \/ ReapChild
  \/ DrainRead
  \/ DrainClear
  \/ DrainParse
  \/ Push
  \/ \E found \in BOOLEAN : CgCheck(found)
  \/ CgRun
  \/ \E out \in CgOutputs : CgExit(out)
  \/ CgParse
  \/ Report
  \/ ListenerBind
  \/ ListenerBindFail
  \/ ListenerWait
  \/ ListenerRecv
  \/ ChildStart
  \/ \E st \in Statuses : CmdExit(st)
  \/ ChildClassify
  \/ ChildSend
  \/ ChildReturn
  \/ Tick
  \/ TimeoutFire
  \/ OrphanExit

Spec == Init /\ [][Next]_vars

(***************************************************************************)
(* Measured commands that send metrics of their own to the listener (the   *)
(* module documentation of main.rs, lines 24-26): the invocation from the  *)
(* moment the main task has passed the barrier, listener on port 8125, no  *)
(* setup, teardown, timeout or profiling configured.                       *)
(***************************************************************************)
\* datagrams a measured command sends: a metric line, a metric line without
\* its final newline, a line whose value is no number, a line without colon
CustomDatagrams ==
  { <<"udp.data", ":", "3", "|", "g", NL>>,
    <<"hits", ":", "1", "|", "c">>,
    <<"udp.data", ":", "abc", "|", "g", NL>>,
    <<"junk", NL>> }

\* the measured command sends the datagram d to udp://localhost:8125
CmdSend(d) ==
  /\ cpc = "running" /\ running["run"] > 0
  /\ customSent < MaxCustom
  /\ customSent' = customSent + 1
  /\ sock' = Deliver(StatsdPort, d)
  /\ UNCHANGED <<modeVars, inputVars, drains, tdDone, cgRuns, doneInTime, sotStatus, dgramVars, mainVars, SIRUN_STATSD_PORT,
                 listenerVars, statsd_started, statsd_buf, childVars, running>>

\* the main task has passed the barrier and enters the loop of line 241
PastBarrier ==
  /\ config \in {c \in Configs :
                   ~c.setup /\ ~c.teardown /\ ~c.cachegrind /\ ~c.timeout.some}
  /\ valgrind = FALSE
  /\ SIRUN_STATSD_PORT = Some(StatsdPort)
  /\ pc = "loop"
  /\ exitCode = Running
  /\ err = ""
  /\ typ = "setup"
  /\ inCg = FALSE
  /\ code = 1
  /\ attempts = 0
  /\ status = 0
  /\ udp_string = <<>>
  /\ metrics = EmptyMap
  /\ iterations = <<>>
  /\ output = None
  /\ instructions = None
  /\ stdout = <<>>
  /\ lpc = "barrier"
  /\ boundPort = StatsdPort
  /\ statsd_started = {"main", "listener"}
  /\ statsd_buf = <<>>
  /\ sock = <<>>
  /\ cpc = "none"
  /\ cenv = None
  /\ cstatus = NoStatus
  /\ cexit = Running
  /\ cmetrics = EmptyMap
  /\ watcher = "none"
  /\ clock = 0
  /\ sentTo = None
  /\ sentBuf = <<>>
  /\ running = [k \in Kinds |-> 0]
  /\ drains = 0
  /\ tdDone = 0
  /\ customSent = 0
  /\ cgRuns = 0
  /\ doneInTime = FALSE
  /\ sotStatus = NoStatus
  /\ bufDgrams = <<>>
  /\ readDgrams = <<>>
  /\ reaped = ZeroRusage
  /\ rusage_start = ZeroRusage
  /\ NoFanOut
  /\ NoSummarize

InitStatsd == PastBarrier /\ samples = FixedSamples

NextStatsd ==
  \/ LoopHead
  \/ SpawnChild
  \/ ReapChild
  \/ DrainRead
  \/ DrainClear
  \/ DrainParse
  \/ Push
  \/ \E found \in BOOLEAN : CgCheck(found)
  \/ Report
  \/ ListenerRecv
  \/ ChildStart
  \/ \E d \in CustomDatagrams : CmdSend(d)
  \/ \E st \in Statuses : CmdExit(st)
  \/ ChildClassify
  \/ ChildSend
  \/ ChildReturn

SpecStatsd == InitStatsd /\ [][NextStatsd]_vars

(***************************************************************************)
(* The same invocation for measured commands of any usage that send no     *)
(* metrics of their own.                                                   *)
(***************************************************************************)
InitKernel == PastBarrier /\ samples \in SampleSets

NextKernel ==
  \/ LoopHead
  \/ SpawnChild
  \/ ReapChild
  \/ DrainRead
  \/ DrainClear
  \/ DrainParse
  \/ Push
  \/ \E found \in BOOLEAN : CgCheck(found)
  \/ Report
  \/ ListenerRecv
  \/ ChildStart
  \/ \E st \in Statuses : CmdExit(st)
  \/ ChildClassify
  \/ ChildSend
  \/ ChildReturn

SpecKernel == InitKernel /\ [][NextKernel]_vars

(***************************************************************************)
(* Resolution of the configuration and the fan-out over variants:          *)
(* main_main lines 224-230 and run_all_variants (main.rs lines 201-216).   *)
(***************************************************************************)
\* what these steps leave alone: the state of an ordinary run
runVars ==
  <<typ, inCg, code, attempts, status, udp_string, metrics, iterations, output,
    instructions, stdout, inputVars, histVars, SIRUN_STATSD_PORT, listenerVars,
    statsd_started, statsd_buf, sock, childVars, running, sumVars>>

\* lines 224-230: get_config; an Err ends the process, Some(variants) starts
\* the fan-out, None goes on to the ordinary run of line 232
GetConfig ==
  /\ Alive /\ pc = "get_config"
  /\ resolved' = get_config(fileConfig, SIRUN_VARIANT)
  /\ IF ~resolved'.ok
     THEN /\ Fail(resolved'.err)
          /\ UNCHANGED variantsLeft
     ELSE IF resolved'.config.variants.some
     THEN /\ variantsLeft' = resolved'.config.variants.val
          /\ pc' = "fanout"
          /\ UNCHANGED <<exitCode, err>>
     ELSE /\ pc' = "run"
          /\ UNCHANGED <<exitCode, err, variantsLeft>>
  /\ UNCHANGED <<fileConfig, SIRUN_VARIANT, children, runVars>>

\* lines 205-212: the next identifier: set SIRUN_VARIANT, start the child
FanSpawn ==
  /\ Alive /\ pc = "fanout"
  /\ variantsLeft # <<>>
  /\ SIRUN_VARIANT' = Some(Head(variantsLeft))
  /\ children' = Append(children, [variant |-> Head(variantsLeft),
                                   env |-> SIRUN_VARIANT',
                                   status |-> NoStatus])
  /\ variantsLeft' = Tail(variantsLeft)
  /\ pc' = "fan_wait"
  /\ UNCHANGED <<exitCode, err, fileConfig, resolved, runVars>>

\* a child's fatal exit code taken over as the exit code of the fan-out
FanChildExitPropagate(st) ==
  /\ Alive /\ pc = "fan_wait"
  /\ children' = [children EXCEPT ![Len(children)].status = st]
  /\ IF st.exited /\ IsFatal(st.n)
       THEN Exit(st.n)
       ELSE pc' = "fanout" /\ UNCHANGED <<exitCode, err>>
  /\ UNCHANGED <<fileConfig, SIRUN_VARIANT, resolved, variantsLeft, runVars>>

\* lines 212-213: the child ends with status st, which is not looked at
FanChildExit(st) ==
  /\ Alive /\ pc = "fan_wait"
  /\ children' = [children EXCEPT ![Len(children)].status = st]
  /\ pc' = "fanout"
  /\ UNCHANGED <<exitCode, err, fileConfig, SIRUN_VARIANT, resolved,
                 variantsLeft, runVars>>

\* lines 215 and 229: run_all_variants returns Ok, so does main_main
FanReturn ==
  /\ Alive /\ pc = "fanout"
  /\ variantsLeft = <<>>
  /\ pc' = "exited"
  /\ exitCode' = 0
  /\ UNCHANGED <<err, fanVars, runVars>>

\* an ordinary run that has not begun
RunIdle ==
  /\ config = [iterations |-> 1, setup |-> FALSE, teardown |-> FALSE,
               timeout |-> None, cachegrind |-> FALSE]
  /\ valgrind = FALSE
  /\ SIRUN_STATSD_PORT = None
  /\ typ = "setup"
  /\ inCg = FALSE
  /\ code = 1
  /\ attempts = 0
  /\ status = 0
  /\ udp_string = <<>>
  /\ metrics = EmptyMap
  /\ iterations = <<>>
  /\ output = None
  /\ instructions = None
  /\ stdout = <<>>
  /\ lpc = "none"
  /\ boundPort = 0
  /\ statsd_started = {}
  /\ statsd_buf = <<>>
  /\ sock = <<>>
  /\ cpc = "none"
  /\ cenv = None
  /\ cstatus = NoStatus
  /\ cexit = Running
  /\ cmetrics = EmptyMap
  /\ watcher = "none"
  /\ clock = 0
  /\ sentTo = None
  /\ sentBuf = <<>>
  /\ running = [k \in Kinds |-> 0]
  /\ drains = 0
  /\ tdDone = 0
  /\ customSent = 0
  /\ cgRuns = 0
  /\ doneInTime = FALSE
  /\ sotStatus = NoStatus
  /\ bufDgrams = <<>>
  /\ readDgrams = <<>>
  /\ samples = FixedSamples
  /\ reaped = ZeroRusage
  /\ rusage_start = ZeroRusage

InitVariants ==
  /\ fileConfig \in FileConfigs
  /\ SIRUN_VARIANT \in {None} \cup {Some(k) : k \in VariantKeys}
  /\ resolved = Ok(DefaultConfig)
  /\ variantsLeft = <<>>
  /\ children = <<>>
  /\ pc = "get_config"
  /\ exitCode = Running
  /\ err = ""
  /\ NoSummarize
  /\ RunIdle

NextVariants ==
  \/ GetConfig
  \/ FanSpawn
  \/ \E st \in Statuses : FanChildExit(st)
  \/ FanReturn

SpecVariants == InitVariants /\ [][NextVariants]_vars

(***************************************************************************)
(* Summary mode: main_main lines 219-222 hand the process to summarize     *)
(* (summarize.rs lines 60-103) when the first argument is --summarize.     *)
(***************************************************************************)
\* what summarize leaves alone: the state of an ordinary run but its stdout
idleVars ==
  <<typ, inCg, code, attempts, status, udp_string, metrics, iterations, output,
    instructions, inputVars, histVars, SIRUN_STATSD_PORT, listenerVars,
    statsd_started, statsd_buf, sock, childVars, running, fanVars>>

\* lines 64-100: one turn of the loop, which reads one line
SummarizeLine ==
  /\ Alive /\ pc = "summarize"
  /\ nread < Len(stdin_lines)
  /\ nread' = nread + 1
  /\ LET line == stdin_lines[nread + 1] IN
       IF LinePanics(line)
         THEN /\ Exit(PanicExit)
              /\ result_data' = result_data
         ELSE /\ result_data' = ProcessLine(result_data, line)
              /\ UNCHANGED <<pc, exitCode, err>>
  /\ UNCHANGED <<stdin_lines, stdout, idleVars>>

\* lines 64 and 101-102: read_line returns 0, the result is printed
SummarizeEnd ==
  /\ Alive /\ pc = "summarize"
  /\ nread = Len(stdin_lines)
  /\ stdout' = Append(stdout, to_string_pretty(result_data))
  /\ Exit(0)
  /\ UNCHANGED <<sumVars, idleVars>>

InitSummarize ==
  /\ stdin_lines \in SeqsUpTo(InputLines, 2)
  /\ nread = 0
  /\ result_data = EmptyMap
  /\ pc = "summarize"
  /\ exitCode = Running
  /\ err = ""
  /\ NoFanOut
  /\ RunIdle

NextSummarize ==
  \/ SummarizeLine
  \/ SummarizeEnd

SpecSummarize == InitSummarize /\ [][NextSummarize]_vars

(***************************************************************************)
(* Properties.                                                             *)
(***************************************************************************)
SotPhase == pc \in {"sot_loop", "sot_wait"}
RunningTotal ==
  running["setup"] + running["run"] + running["teardown"] + running["profile"]
\* the measured command of this iteration has exited with a code in lo..hi
\* and the timeout watcher has not ended the child
CmdExitedIn(lo, hi) ==
  /\ cstatus.exited
  /\ lo <= cstatus.n /\ cstatus.n <= hi
  /\ watcher # "fired"
\* once the top-level process has exited nothing is spawned, recorded or printed
NothingAfterExit ==
  exitCode # Running =>
    /\ stdout' = stdout
    /\ iterations' = iterations
    /\ pc' = pc
    /\ cpc' = cpc
    /\ \A k \in Kinds : running'[k] <= running[k]

\* the measured command of this iteration has exited with a code in lo..hi
CmdExitedWith(lo, hi) ==
  /\ cstatus.exited
  /\ lo <= cstatus.n /\ cstatus.n <= hi

\* C1: when the measured command exits with a code c in 1..128, the
\* per-iteration child exits with c and the top-level process exits with
\* that same code c.
C1_FatalCodePropagates ==
  CmdExitedWith(1, 128) =>
    /\ cexit \in {Running, cstatus.n}
    /\ exitCode \in {Running, cstatus.n}

\* The same statement for the executions in which the timeout watcher does
\* not end the child after the command has completed: there the code c
\* reaches both exits, and after the exit nothing is spawned, recorded or
\* printed.
FatalCodeState ==
  CmdExitedIn(1, 128) =>
    /\ cexit \in {Running, cstatus.n}
    /\ exitCode \in {Running, cstatus.n}
    /\ (cpc = "exited" => cexit = cstatus.n)
    /\ (exitCode # Running => cexit = cstatus.n /\ stdout = <<>> /\ RunningTotal = 0)
    /\ pc \in {"wait_child", "exited"}
FatalCodeAbortsUnlessTimeout == []FatalCodeState /\ [][NothingAfterExit]_vars

\* C2: when the measured command exits with a code above 128 the iteration
\* is not aborted: the child exits 0 and the top-level process does not end
\* by exit(status) while that iteration lasts.
C2_HighCodeContinues ==
  CmdExitedWith(129, 255) =>
    /\ cexit \in {Running, 0}
    /\ (exitCode # Running => err # "")

\* The same statement for the executions in which the timeout watcher does
\* not end the child after the command has completed: the child sends a
\* datagram with the five kernel metrics and exits 0; the top-level process
\* goes on to the drain, to teardown, pushes the IterationResult and returns
\* to the loop.
HighCodeState ==
  CmdExitedIn(129, 255) =>
    /\ cexit \in {Running, 0}
    /\ (cpc = "exited" =>
          /\ cexit = 0
          /\ sentTo.some
          /\ KernelKeys \subseteq DOMAIN ParseMetrics(sentBuf).metrics)
    /\ (exitCode # Running => err # "")
HighCodeStep ==
  CmdExitedIn(129, 255) =>
    /\ (pc = "wait_child" /\ pc' # pc => pc' = "drain_read" /\ status' = 0)
    /\ (pc = "drain_parse" /\ pc' \notin {pc, "exited"} =>
          /\ typ' = "teardown"
          /\ pc' = IF config.teardown THEN "sot_loop" ELSE "push")
    /\ (pc = "push" /\ pc' # pc =>
          /\ iterations' = Append(iterations, metrics)
          /\ pc' = "loop")
HighCodeContinuesUnlessTimeout == []HighCodeState /\ [][HighCodeStep]_vars

\* C3: when the measured command is terminated by a signal the child does
\* not abort (it ends with code 0) and the top-level process ends, while the
\* iteration lasts, only with an Err and never with exit(status).
C3_SignalIsNonFatal ==
  (cstatus # NoStatus /\ ~cstatus.exited /\ watcher # "fired") =>
    /\ cexit \in {Running, 0}
    /\ (exitCode # Running => err # "")

\* C4: every result line printed has exactly config.iterations entries in
\* `iterations`, a successful invocation prints one line, and the list only
\* grows by the push of one IterationResult at its end.
C4_State ==
  /\ \A k \in DOMAIN stdout : Len(stdout[k].iterations) = config.iterations
  /\ (exitCode = 0 => Len(stdout) = 1)
  /\ Len(iterations) <= config.iterations
C4_Step ==
  \/ iterations' = iterations
  \/ pc = "push" /\ iterations' = Append(iterations, metrics)
C4_ExactlyNEntries == []C4_State /\ [][C4_Step]_vars
C4_Witness ==
  /\ exitCode = 0 /\ Len(stdout) = 1
  /\ config.iterations = MaxIterations
  /\ Len(stdout[1].iterations) = MaxIterations

\* C5: a setup or teardown command is run only while no attempt has exited 0
\* and fewer than 100 attempts have failed, so at most 100 times; after an
\* exit 0 it is not run again; after 100 failures the phase fails, the
\* process ends with a non-zero code, and the measured command (or the
\* profiling run) the setup precedes has not been started.
C5_State ==
  /\ attempts <= 100
  /\ \A t \in {"setup", "teardown"} :
       /\ running[t] > 0 =>
            t = typ /\ pc = "sot_wait" /\ code # 0 /\ attempts < 100
       /\ err = t \o " script did not complete successfully" =>
            /\ typ = t /\ attempts = 100 /\ code # 0
            /\ pc = "exited" /\ exitCode # 0
            /\ RunningTotal = 0
            /\ (t = "setup" /\ ~inCg => cpc = "none" /\ cstatus = NoStatus)
            /\ (t = "setup" /\ inCg => ~output.some)
C5_Step ==
  /\ (pc = "sot_loop" /\ pc' # pc /\ code = 0 =>
        running' = running /\ pc' # "sot_wait")
  /\ (pc = "sot_loop" /\ pc' # pc /\ code # 0 /\ attempts < 100 =>
        running'[typ] = running[typ] + 1)
  /\ (pc = "sot_loop" /\ pc' # pc /\ code # 0 /\ attempts = 100 =>
        pc' = "exited" /\ exitCode' # 0 /\ running' = running)
  /\ (pc = "sot_wait" /\ pc' = "sot_loop" =>
        attempts' = IF code' = 0 THEN attempts ELSE attempts + 1)
IterationActive ==
  \/ SotPhase /\ typ = "setup" /\ ~inCg
  \/ pc \in {"spawn_child", "wait_child"}
C7_State ==
  watcher = "fired" =>
    /\ cpc = "exited" /\ cexit \notin {0, Running}
    /\ exitCode # 0
    /\ pc \in {"wait_child", "exited"}
    /\ (pc = "exited" <=> exitCode # Running)
    /\ stdout = <<>>
C7_Step ==
  watcher = "fired" =>
    /\ stdout' = stdout
    /\ cpc' = cpc
    /\ iterations' = iterations
    /\ running'["run"] <= running["run"]
    /\ (pc' # pc => pc' = "exited" /\ exitCode' \notin {0, Running})
C7_TimeoutAborts == []C7_State /\ [][C7_Step]_vars
C7_Witness ==
  /\ watcher = "fired" /\ clock = config.timeout.val
  /\ cstatus = NoStatus /\ running["run"] = 1
  /\ exitCode = 1 /\ stdout = <<>>

\* C8: the listener calls barrier.wait() only after it has bound its socket
\* and published the port in SIRUN_STATSD_PORT; the main task is past the
\* barrier only after the listener has called wait(); so no setup command,
\* child or measured command exists before the port is bound and published.
\* A process the listener's panic aborted (statsd.rs:19) ended at the barrier
\* without passing it.
Published == boundPort # 0 /\ SIRUN_STATSD_PORT = Some(boundPort)
C8_ReadinessBarrier ==
  /\ ("listener" \in statsd_started => Published)
  /\ (pc \notin {"start", "barrier"} /\ exitCode # AbortExit
        => "listener" \in statsd_started)
  /\ (RunningTotal > 0 \/ cpc # "none" => Published /\ pc \notin {"start", "barrier"})
C8_Witness ==
  /\ running["setup"] = 1 /\ Len(iterations) = 0
  /\ boundPort = EphemeralPort /\ SIRUN_STATSD_PORT = Some(EphemeralPort)

\* C9: the datagram of the per-iteration child goes to the port the
\* listener's socket is bound to.
C9_ChildSendsToBoundPort == sentTo.some => sentTo.val = boundPort

\* C10: every IterationResult of a printed RunResult contains the five
\* kernel metrics (stated for a listener bound to the port the children
\* send to, where only the interleaving of send, receive and drain decides).
C10_AllKernelKeys ==
  boundPort = StatsdPort =>
    \A k \in DOMAIN stdout :
      \A i \in DOMAIN stdout[k].iterations :
        KernelKeys \subseteq DOMAIN stdout[k].iterations[i]

\* C11: the drain is atomic with respect to the listener: what the clear
\* of a drain removes from the buffer is what the read of that drain
\* returned, so no appended datagram is discarded unreturned.
C11_DrainAtomic ==
  [][pc = "drain_clear" /\ pc' = "drain_parse" => statsd_buf = udp_string]_vars

\* C12: a drained line whose value is no number is skipped: the drain
\* never makes the invocation fail, it always hands its metrics on.
C12_MalformedLineSkipped ==
  [][pc = "drain_parse" /\ pc' # pc => exitCode' = Running /\ pc' = "push"]_vars

\* C13: with variants configured (an array or an object, every entry with
\* a `run` of its own) and SIRUN_VARIANT not set, the invocation has started
\* one child invocation per identifier, in the order of the identifiers,
\* when it ends.
FanOutIds == VariantIds(fileConfig.variants)
StartedIds == [i \in DOMAIN children |-> children[i].variant]
C13_FanOutStartsEveryVariant ==
  (/\ pc = "exited"
   /\ fileConfig.variants.kind \in {"array", "object"}
   /\ \A i \in DOMAIN fileConfig.variants.items :
        IF fileConfig.variants.kind = "array"
        THEN fileConfig.variants.items[i].run.some
        ELSE fileConfig.variants.items[i].val.run.some
   /\ (children # <<>> \/ SIRUN_VARIANT = None)) =>
    StartedIds = FanOutIds

\* Once the fan-out has begun it is as stated: the children are started in
\* the order of the identifiers (the indices of an array, the keys of an
\* object), each with SIRUN_VARIANT set to its identifier, a child is
\* started only when every earlier one has ended, whatever its status, and
\* the process ends, with code 0, only when all were started.
FanOutSequential ==
  pc \in {"fanout", "fan_wait"} \/ (pc = "exited" /\ children # <<>>) =>
    /\ StartedIds \o variantsLeft = FanOutIds
    /\ (fileConfig.variants.kind = "array" =>
          \A i \in DOMAIN FanOutIds : FanOutIds[i] = ToString(i - 1))
    /\ \A i \in DOMAIN children :
         /\ children[i].env = Some(children[i].variant)
         /\ (i < Len(children) => children[i].status # NoStatus)
    /\ (pc = "fan_wait" <=> children # <<>> /\ children[Len(children)].status = NoStatus)
    /\ (pc = "exited" => variantsLeft = <<>> /\ exitCode = 0)

\* C14: with SIRUN_VARIANT = k and `variants` an array of n entries,
\* resolution applies entry k (counted from 0) and reports the variant as
\* the string k when 0 <= k < n, and fails with an error, the process ending
\* with a non-zero code, when k >= n or k is no non-negative integer; with
\* `variants` an object it applies the entry under key k and fails when no
\* entry has that key.
\* the integer a value of SIRUN_VARIANT denotes, -1 when it denotes none
KeyIndex(k) ==
  IF k \in {"+1", "01"} THEN 1
  ELSE IF \E i \in 0..MaxVariants : k = ToString(i)
  THEN CHOOSE i \in 0..MaxVariants : k = ToString(i)
  ELSE -1
\* the resolution selected the entry: its keys override those of the file
SelectedEntry(entry) ==
  LET run == IF entry.run.some THEN entry.run ELSE fileConfig.base.run
  IN IF run.some
     THEN /\ resolved.ok /\ pc = "run"
          /\ resolved.config.run = run
          /\ resolved.config.iterations =
               (IF entry.iterations.some THEN entry.iterations.val ELSE 1)
          /\ resolved.config.variant = SIRUN_VARIANT
          /\ resolved.config.variants = None
     ELSE ~resolved.ok /\ resolved.err = "'run' must be provided"
ResolutionFailed ==
  /\ ~resolved.ok /\ resolved.err # "'run' must be provided"
  /\ pc = "exited" /\ exitCode # 0
  /\ RunningTotal = 0 /\ cpc = "none" /\ stdout = <<>>
C14_VariantResolution ==
  pc # "get_config" /\ children = <<>> /\ SIRUN_VARIANT.some =>
    LET k == SIRUN_VARIANT.val
        items == fileConfig.variants.items
    IN /\ (fileConfig.variants.kind = "array" =>
             IF 0 <= KeyIndex(k) /\ KeyIndex(k) < Len(items)
             THEN SelectedEntry(items[KeyIndex(k) + 1])
             ELSE ResolutionFailed)
       /\ (fileConfig.variants.kind = "object" =>
             IF \E i \in DOMAIN items : items[i].key = k
             THEN \A i \in DOMAIN items : items[i].key = k => SelectedEntry(items[i].val)
             ELSE ResolutionFailed)
C14_Witness ==
  /\ pc = "run" /\ SIRUN_VARIANT = Some("1")
  /\ fileConfig.variants.kind = "array" /\ Len(fileConfig.variants.items) = 2
  /\ fileConfig.variants.items[1].run = Some("a")
  /\ fileConfig.variants.items[2].run = Some("b")
  /\ resolved.config.run = Some("b")
  /\ resolved.config.variant = Some("1")

\* C15: the result line is printed at most once, as the last step of a
\* process that ends with code 0, when every iteration has been run, drained
\* and torn down, no spawned command is running and the profiling run, when
\* there was one, has ended with a positive instruction count; a process
\* that ends with any other code has printed no result line.
C15_State ==
  /\ Len(stdout) <= 1
  /\ (exitCode \notin {Running, 0} => stdout = <<>>)
  /\ (stdout # <<>> =>
        /\ pc = "exited" /\ exitCode = 0 /\ err = ""
        /\ Len(iterations) = config.iterations
        /\ drains = config.iterations
        /\ (config.teardown => tdDone = config.iterations)
        /\ RunningTotal = 0 /\ cpc = "none"
        /\ (config.cachegrind /\ valgrind <=> instructions.some)
        /\ (instructions.some =>
              /\ output.some /\ instructions.val > 0
              /\ typ = "teardown" /\ inCg /\ (config.teardown => code = 0)))
C15_Step ==
  stdout' # stdout =>
    /\ stdout = <<>> /\ pc = "report"
    /\ pc' = "exited" /\ exitCode' = 0
C15_ResultLineLast == []C15_State /\ [][C15_Step /\ NothingAfterExit]_vars
C15_Witness ==
  /\ Len(stdout) = 1 /\ exitCode = 0
  /\ config.cachegrind /\ config.teardown /\ config.setup
  /\ config.iterations = MaxIterations
  /\ stdout[1].instructions.some

\* every IterationResult recorded or printed
AllResults ==
  {iterations[i] : i \in DOMAIN iterations}
    \cup UNION {{stdout[k].iterations[i] : i \in DOMAIN stdout[k].iterations} :
                  k \in DOMAIN stdout}

\* C16: in every IterationResult that reports cpu.pct.wall.time, its value
\* is (user.time + system.time) * 100 / wall.time of the values that same
\* result reports.
C16_CpuPct ==
  \A m \in AllResults :
    "cpu.pct.wall.time" \in DOMAIN m =>
      /\ {"user.time", "system.time", "wall.time"} \subseteq DOMAIN m
      /\ m["user.time"].d = 1 /\ m["system.time"].d = 1 /\ m["wall.time"].d = 1
      /\ m["cpu.pct.wall.time"] =
           Frac((m["user.time"].n + m["system.time"].n) * 100, m["wall.time"].n)
C16_Witness ==
  /\ exitCode = 0 /\ Len(stdout) = 1
  /\ Len(stdout[1].iterations) = 2
  /\ \A i \in 1..2 :
       /\ KernelKeys \subseteq DOMAIN stdout[1].iterations[i]
       /\ stdout[1].iterations[i]["user.time"] = Num(2)
       /\ stdout[1].iterations[i]["system.time"] = Num(1)
       /\ stdout[1].iterations[i]["wall.time"] = Num(7)
       /\ stdout[1].iterations[i]["cpu.pct.wall.time"] = [n |-> 300, d |-> 7]

\* C17: the two samples are taken in the process that spawns the measured
\* command, the first with the spawn and the second with its completion;
\* while the window is open that process has waited for no child, the
\* top-level process is blocked on it, and the measured command is the only
\* spawned command running; so the delta is the usage of this run of the
\* measured command alone, in every iteration.
CommandUsage ==
  [user_time |-> samples.user_time, system_time |-> samples.system_time,
   max_res_size |-> samples.max_res_size]
C17_State ==
  /\ (cpc \in {"start", "running", "completed", "metrics", "sent"} =>
        pc = "wait_child" /\ running["setup"] = 0 /\ running["teardown"] = 0
          /\ running["profile"] = 0)
  /\ (cpc = "start" => reaped = ZeroRusage)
  /\ (cpc = "running" => rusage_start = reaped /\ running["run"] = 1)
  /\ (cpc = "completed" => RusageResult = CommandUsage /\ running["run"] = 0)
  /\ \A m \in AllResults :
       /\ "user.time" \in DOMAIN m => m["user.time"] = Num(samples.user_time)
       /\ "system.time" \in DOMAIN m => m["system.time"] = Num(samples.system_time)
       /\ "max.res.size" \in DOMAIN m => m["max.res.size"] = Num(samples.max_res_size)
C17_Step ==
  /\ (rusage_start' # rusage_start /\ cpc' # "none" =>
        running'["run"] = running["run"] + 1)
  /\ (reaped' # reaped /\ reaped # ZeroRusage => reaped' = ZeroRusage /\ cpc' \in {"start", "none"})
  /\ (reaped' # reaped /\ reaped = ZeroRusage =>
        running'["run"] = running["run"] - 1 /\ cpc' = "completed")
Accepted(line) ==
  line.ok /\ {"name", "variant", "iterations"} \subseteq DOMAIN line.data
\* the loop has just taken a line and made its summary
JustSummarized ==
  /\ nread > 0
  /\ Accepted(stdin_lines[nread])
  /\ exitCode # PanicExit
LastIterations == stdin_lines[nread].data["iterations"]
LastSummary ==
  result_data[stdin_lines[nread].data["name"]]
             [stdin_lines[nread].data["variant"]]["summary"]
Elems(items) == {items[i] : i \in 1..Len(items)}

\* C18: for every key and its non-empty list of observations, min is the
\* least and max the greatest observation: both are members of the list and
\* min <= every observation <= max; [1,3] gives min = 1 and max = 3.
C18_MinMaxOfObservations ==
  JustSummarized =>
    \A k \in StatKeys(LastIterations) :
      LET obs == Collect(LastIterations, k)
          st == LastSummary[k]
      IN /\ st.min \in Elems(obs)
         /\ st.max \in Elems(obs)
         /\ \A o \in Elems(obs) : ~RLess(o, st.min) /\ ~RLess(st.max, o)
         /\ obs = <<Num(1), Num(3)>> => st.min = Num(1) /\ st.max = Num(3)

\* the half of C18 the code keeps: min is the least observation
MinIsLeast ==
  JustSummarized =>
    \A k \in StatKeys(LastIterations) :
      LET obs == Collect(LastIterations, k)
          st == LastSummary[k]
      IN st.min \in Elems(obs) /\ \A o \in Elems(obs) : ~RLess(o, st.min)

\* C19: for every key and its non-empty list of observations, mean is the
\* arithmetic mean, stddev the population standard deviation (the square
\* root of the mean of the squared deviations, divided by the number of
\* observations) and stddev_pct is stddev / mean * 100; [1,3] gives mean = 2
\* and stddev = 1.
C19_MeanStddev ==
  JustSummarized =>
    \A k \in StatKeys(LastIterations) :
      LET obs == Collect(LastIterations, k)
          st == LastSummary[k]
          total == Sum(obs)
          sq == Sum([i \in 1..Len(obs) |-> SqDiff(obs[i], st.mean)])
          \* the square of stddev
          var == IF IsNum(st.stddev)
                   THEN [n |-> st.stddev.n * st.stddev.n,
                         d |-> st.stddev.d * st.stddev.d]
                   ELSE st.stddev.surd
      IN /\ st.mean.d # 0
         /\ st.mean.n * Len(obs) * total.d = total.n * st.mean.d
         /\ var.d # 0
         /\ var.n * Len(obs) * sq.d = sq.n * var.d
         /\ IF st.mean.n = 0
              THEN st.stddev_pct \in {NaN, Infinity}
              ELSE IF IsNum(st.stddev)
                THEN st.stddev_pct.n * st.mean.n * st.stddev.d
                       = 100 * st.stddev.n * st.mean.d * st.stddev_pct.d
                ELSE st.stddev_pct.surd.n * st.mean.n * st.mean.n * var.d
                       = 10000 * var.n * st.mean.d * st.mean.d
                           * st.stddev_pct.surd.d
         /\ obs = <<Num(1), Num(3)>> => st.mean = Num(2) /\ st.stddev = Num(1)

C19_Witness ==
  /\ JustSummarized
  /\ "x" \in StatKeys(LastIterations)
  /\ Collect(LastIterations, "x") = <<Num(1), Num(3)>>
  /\ LastSummary["x"].mean = Num(2)
  /\ LastSummary["x"].stddev = Num(1)
  /\ LastSummary["x"].stddev_pct = Num(50)

\* all the iterations of the accepted input lines with this name and variant
RECURSIVE AllIterations(_, _, _)
AllIterations(lines, name, variant) ==
  IF lines = <<>> THEN <<>>
  ELSE (IF /\ Accepted(Head(lines))
           /\ Head(lines).data["name"] = name
           /\ Head(lines).data["variant"] = variant
          THEN Head(lines).data["iterations"] ELSE <<>>)
       \o AllIterations(Tail(lines), name, variant)

\* C20: for each (name, variant), the observations of a key are its values
\* in every iteration of every input record with that pair: the summary of
\* a pair carried by several lines is computed over the iterations of all
\* of them.
C20_AggregatesAllLines ==
  pc = "exited" /\ exitCode = 0 =>
    \A name \in DOMAIN result_data : \A variant \in DOMAIN result_data[name] :
      result_data[name][variant]["summary"]
        = summary(AllIterations(stdin_lines, name, variant))

\* what the code does instead: the last line of a pair replaces the others
RECURSIVE LastIterationsOf(_, _, _)
LastIterationsOf(lines, name, variant) ==
  IF lines = <<>> THEN <<>>
  ELSE LET l == lines[Len(lines)] IN
       IF /\ Accepted(l)
          /\ l.data["name"] = name
          /\ l.data["variant"] = variant
         THEN l.data["iterations"]
         ELSE LastIterationsOf(SubSeq(lines, 1, Len(lines) - 1), name, variant)
LastLineWins ==
  pc = "exited" /\ exitCode = 0 =>
    \A name \in DOMAIN result_data : \A variant \in DOMAIN result_data[name] :
      result_data[name][variant]["summary"]
        = summary(LastIterationsOf(stdin_lines, name, variant))

\* C21: in summary mode a line that cannot be parsed or that lacks name,
\* variant or iterations is skipped: reading goes on, and result_data is
\* exactly what it was before the line (no name entry, no variant entry is
\* added and no existing entry changes).
C21_SkippedLineChangesNothing ==
  [][nread' = nread + 1 /\ ~Accepted(stdin_lines[nread + 1])
       => result_data' = result_data /\ pc' = "summarize" /\ exitCode' = Running]_vars

\* what holds of a skipped line: reading goes on, no variant entry is added
\* and no existing entry changes; a name entry may appear, and it is empty
SkippedLineKeepsEntries ==
  [][nread' = nread + 1 /\ ~Accepted(stdin_lines[nread + 1])
       => /\ pc' = "summarize" /\ exitCode' = Running
          /\ \A name \in DOMAIN result_data : result_data'[name] = result_data[name]
          /\ \A name \in (DOMAIN result_data') \ (DOMAIN result_data) :
               result_data'[name] = EmptyMap]_vars

\* the keys of a record that are passed through
PassedKeys(line) == (DOMAIN line.data) \ {"name", "variant", "iterations"}
\* the printed entry of a record holds its summary and its passed keys
HoldsRecord(out, line) ==
  LET name == line.data["name"]
      variant == line.data["variant"]
  IN /\ name \in DOMAIN out
     /\ variant \in DOMAIN out[name]
     /\ "summary" \in DOMAIN out[name][variant]
     /\ "iterations" \notin DOMAIN out[name][variant]
     /\ \A k \in PassedKeys(line) :
          /\ k \in DOMAIN out[name][variant]
          /\ out[name][variant][k] = line.data[k]

\* C22: for every accepted input record the output holds under
\* output[name][variant] a map with `summary`, with every key of the record
\* other than name, variant and iterations unchanged, and without
\* `iterations`; the output is written once, after end of input.
C22_PassThrough ==
  /\ pc = "summarize" => stdout = <<>>
  /\ pc = "exited" /\ exitCode = 0 =>
       /\ Len(stdout) = 1
       /\ nread = Len(stdin_lines)
       /\ \A i \in 1..Len(stdin_lines) :
            Accepted(stdin_lines[i]) => HoldsRecord(stdout[1], stdin_lines[i])

\* what holds: the output is written once after end of input, and the entry
\* of a pair holds the last accepted record of that pair
LaterSamePair(i) ==
  \E j \in (i + 1)..Len(stdin_lines) :
    /\ Accepted(stdin_lines[j])
    /\ stdin_lines[j].data["name"] = stdin_lines[i].data["name"]
    /\ stdin_lines[j].data["variant"] = stdin_lines[i].data["variant"]
PassThroughOfLastRecord ==
  /\ pc = "summarize" => stdout = <<>>
  /\ pc = "exited" /\ exitCode = 0 =>
       /\ Len(stdout) = 1
       /\ nread = Len(stdin_lines)
       /\ \A i \in 1..Len(stdin_lines) :
            Accepted(stdin_lines[i]) /\ ~LaterSamePair(i)
              => HoldsRecord(stdout[1], stdin_lines[i])

\* the steps of the main task and of the listener up to the barrier
StartupStep ==
  Start \/ MainPassBarrier \/ ListenerBind \/ ListenerBindFail \/ ListenerWait
\* Spec with the scheduling of the executor: the main task and the listener
\* are run whenever they can take a step
LiveSpec == Spec /\ WF_vars(StartupStep)

\* C23: when the listener cannot bind its socket the failure is fatal at
\* startup: the invocation terminates with a non-zero status instead of
\* waiting for ever on the barrier, and no setup command, measured command
\* or result line occurs.
C23_BindFailureIsFatal ==
  /\ [](lpc = "panicked" => RunningTotal = 0 /\ cpc = "none" /\ stdout = <<>>)
  /\ (lpc = "panicked") ~> (pc = "exited" /\ exitCode \notin {Running, 0})

\* what holds after a failed bind: nothing is run or printed, and the main
\* task stays at line 238 unless the panic has aborted the process
BindFailureBlocks ==
  [](lpc = "panicked" =>
       /\ \/ pc = "barrier" /\ exitCode = Running
          \/ pc = "exited" /\ exitCode = AbortExit
       /\ RunningTotal = 0 /\ cpc = "none" /\ stdout = <<>>)

\* the profiling block is entered: cachegrind is configured and valgrind found
Profiling == config.cachegrind /\ valgrind
\* the teardowns of the iterations have finished
IterationTeardownsDone == config.teardown => tdDone = config.iterations
C24_State ==
  /\ cgRuns <= 1
  /\ \A i \in 1..Len(iterations) : "instructions" \notin DOMAIN iterations[i]
  /\ instructions.some => cgRuns = 1 /\ output.some /\ ~output.val.bad
                            /\ instructions.val = output.val.refs
  /\ pc = "exited" /\ exitCode = 0 =>
       /\ Len(stdout) = 1
       /\ stdout[1].instructions = instructions
       /\ \A i \in 1..Len(stdout[1].iterations) :
            "instructions" \notin DOMAIN stdout[1].iterations[i]
       /\ Profiling => cgRuns = 1 /\ instructions.some
       /\ ~Profiling => cgRuns = 0 /\ ~instructions.some
C24_Step ==
  /\ cgRuns' # cgRuns =>
       /\ Profiling
       /\ RunningTotal = 0 /\ cpc = "none"
       /\ Len(iterations) = config.iterations
       /\ IterationTeardownsDone
       /\ inCg /\ typ = "setup" /\ (config.setup => code = 0)
  /\ running["profile"] > running'["profile"] =>
       /\ inCg' /\ typ' = "teardown"
       /\ pc' = (IF config.teardown THEN "sot_loop" ELSE "cg_parse")
  /\ instructions' # instructions =>
       /\ ~instructions.some
       /\ inCg /\ typ = "teardown" /\ (config.teardown => code = 0)

ChildStep ==
  /\ ChildAlive
  /\ cpc' # cpc \/ watcher' # watcher \/ clock' # clock
\* the datagram holds the five kernel metrics and nothing else
FiveKernelMetrics(dgram) ==
  /\ ParseMetrics(dgram).ok
  /\ DOMAIN ParseMetrics(dgram).metrics = KernelKeys
C25_State ==
  \* a child that returned has sent its datagram, the command has ended
  /\ cpc = "exited" /\ cexit = 0 =>
       /\ sentTo.some
       /\ FiveKernelMetrics(sentBuf)
       /\ cstatus.exited
       /\ running["run"] = 0
  /\ sentTo.some => FiveKernelMetrics(sentBuf)
C25_Step ==
  \* the child touches nothing of what the parent does
  /\ ChildStep =>
       /\ UNCHANGED <<mainVars, listenerVars, statsd_started, statsd_buf,
                      SIRUN_STATSD_PORT, modeVars, drains, tdDone, customSent,
                      cgRuns>>
       /\ running'["setup"] = running["setup"]
       /\ running'["teardown"] = running["teardown"]
       /\ running'["profile"] = running["profile"]
  \* the measured command is started once, when the child starts
  /\ running'["run"] > running["run"] =>
       cpc = "start" /\ cpc' = "running" /\ running["run"] = 0
  /\ cpc' = "start" /\ cpc # "start" => cpc = "none" /\ pc = "spawn_child"
  \* one datagram, sent after the command has ended
  /\ sentTo' # sentTo /\ sentTo'.some =>
       /\ ~sentTo.some
       /\ cpc = "metrics"
       /\ cstatus.exited
       /\ FiveKernelMetrics(sentBuf')
  \* setup is run by the parent, while no child exists
  /\ running'["setup"] > running["setup"] =>
       pc = "sot_loop" /\ typ = "setup" /\ cpc = "none"

\* C25: a per-iteration child runs the measured command exactly once and
\* sends one datagram with the five kernel metrics; it never runs setup or
\* teardown, never starts a listener, never fans out, never profiles and
\* never prints a result line: setup runs in the parent, once per iteration,
\* and is not re-run by the re-exec.
C25_ChildRunsCommandOnly == []C25_State /\ [][C25_Step]_vars

C25_Witness ==
  /\ cpc = "exited" /\ cexit = 0
  /\ pc = "wait_child"
  /\ config.setup /\ config.teardown
  /\ sentTo.some
  /\ FiveKernelMetrics(sentBuf)
  /\ Len(iterations) = 1
  /\ lpc = "barrier"

\* C26: when the measured command completes before the configured timeout
\* has elapsed, the watcher never terminates the invocation: whatever the
\* interleaving of its timer with the steps after the completion, the
\* iteration is reported as completed and not as a timeout.
C26_NoTimeoutAfterCompletion ==
  doneInTime => watcher # "fired"

\* what holds: the watcher ends the child only once its sleep is over
WatcherFiresWhenElapsed ==
  [][watcher' = "fired" /\ watcher # "fired"
       => clock >= config.timeout.val /\ cexit' = TimeoutExit]_vars

\* the last setup or teardown command was terminated by a signal
SotSignaled == sotStatus \in {Signaled(s) : s \in Signals}
C27_State ==
  SotSignaled =>
    /\ pc = "exited" /\ exitCode = ErrExit
    /\ err = typ \o " script was terminated by signal"
    /\ running[typ] = 0
C27_Step ==
  sotStatus' # sotStatus /\ sotStatus' \in {Signaled(s) : s \in Signals} =>
    /\ pc = "sot_wait" /\ pc' = "exited"
    /\ exitCode' # 0 /\ exitCode' # Running
    /\ attempts' = attempts /\ attempts < MaxAttempts
    /\ stdout' = stdout

\* C27: when a setup or teardown command is terminated by a signal the phase
\* fails at once and the invocation aborts with a non-zero status: the
\* command is not retried, however many of the attempts are left.
C27_SetupSignalAborts == []C27_State /\ [][C27_Step]_vars

C27_Witness ==
  /\ SotSignaled
  /\ pc = "exited" /\ exitCode = ErrExit
  /\ typ = "setup"
  /\ attempts = 1
  /\ stdout = <<>>

\* get_config returned a list of variants: the process is in fan-out mode
FanOutMode ==
  \/ pc \in {"fanout", "fan_wait"}
  \/ pc = "exited" /\ resolved.ok /\ resolved.config.variants.some
\* a variant child that aborted: a fatal code of its command or a timeout
Aborted(st) == st.exited /\ IsFatal(st.n)

\* C28: in fan-out mode the top-level invocation runs no setup, measured
\* command, teardown or listener of its own and prints no result line, and
\* its exit status is 0 whenever every variant child could be spawned,
\* whatever the statuses of the children were.
C28_FanOutExitsZero ==
  FanOutMode =>
    /\ RunningTotal = 0 /\ cpc = "none" /\ cgRuns = 0
    /\ lpc = "none" /\ statsd_started = {} /\ boundPort = 0
    /\ stdout = <<>> /\ iterations = <<>>
    /\ pc = "exited" =>
         /\ exitCode = 0
         /\ variantsLeft = <<>>
         /\ \A i \in DOMAIN children : children[i].status # NoStatus

C28_Witness ==
  /\ pc = "exited" /\ exitCode = 0
  /\ Len(children) = MaxVariants
  /\ Aborted(children[1].status)
  /\ children[1].status.n = TimeoutExit
  /\ stdout = <<>>

\* the lines of a datagram, and the lines of the form key:number|type
DgramLines(d) == {l \in Elems(SplitOn(d, NL, <<>>)) : l # <<>>}
WellFormed(l) ==
  /\ Len(l) = 5
  /\ l[2] = ":" /\ l[4] = "|"
  /\ l[1] \notin {":", "|"} /\ l[5] \notin {":", "|"}
  /\ ParseF64(l[3]).some
\* the well-formed lines of the datagrams a drain has read
ReadLines ==
  UNION {{l \in DgramLines(readDgrams[i]) : WellFormed(l)} : i \in DOMAIN readDgrams}

\* C29: the datagrams are parsed independently: every well-formed
\* key:number|type line of every datagram a drain has read yields its metric
\* in the drain's result, also when an earlier datagram did not end with a
\* newline.
C29_DatagramsIndependent ==
  [][pc = "drain_parse" /\ pc' # pc =>
       /\ exitCode' = Running
       /\ \A l \in ReadLines :
            /\ l[1] \in DOMAIN metrics'
            /\ \E m \in ReadLines :
                 m[1] = l[1] /\ metrics'[l[1]] = ParseF64(m[3]).val]_vars

\* what holds: the lines of the concatenation of the datagrams are parsed,
\* so the claim holds of a drain whose datagrams all end with a newline and
\* hold no line with a value that is no number
EveryDgramTerminated ==
  \A i \in DOMAIN readDgrams :
    /\ readDgrams[i] # <<>> /\ readDgrams[i][Len(readDgrams[i])] = NL
    /\ \A l \in DgramLines(readDgrams[i]) : WellFormed(l) \/ Len(SplitOn(l, ":", <<>>)) < 2
TerminatedDatagramsParsed ==
  [][pc = "drain_parse" /\ pc' # pc /\ EveryDgramTerminated =>
       /\ exitCode' = Running
       /\ \A l \in ReadLines :
            /\ l[1] \in DOMAIN metrics'
            /\ \E m \in ReadLines :
                 m[1] = l[1] /\ metrics'[l[1]] = ParseF64(m[3]).val]_vars

\* the text of a sequence of datagrams
RECURSIVE Flatten(_)
Flatten(ds) == IF ds = <<>> THEN <<>> ELSE Head(ds) \o Flatten(Tail(ds))
C30_State ==
  \* the buffer holds the datagrams appended since the last clear
  /\ statsd_buf = Flatten(bufDgrams)
  \* a drain parses the datagrams appended between the last clear and its read
  /\ pc \in {"drain_clear", "drain_parse"} => udp_string = Flatten(readDgrams)
C30_Step ==
  \* the clear of a drain empties the buffer
  /\ pc = "drain_clear" /\ pc' # pc => statsd_buf' = <<>>
  \* an IterationResult is made of the datagrams its drain has read
  /\ pc = "push" /\ pc' # pc =>
       /\ ParseMetrics(Flatten(readDgrams)).ok
       /\ iterations' = Append(iterations, ParseMetrics(Flatten(readDgrams)).metrics)

\* C30: a datagram appended to the buffer contributes its metrics to at most
\* one IterationResult, that of the first iteration whose drain follows the
\* append; a drain leaves the buffer empty, so a metric received during one
\* iteration never reappears in the result of a later one.
C30_DatagramInOneIteration == []C30_State /\ [][C30_Step]_vars

C30_Witness ==
  /\ pc = "exited" /\ exitCode = 0
  /\ Len(stdout) = 1
  /\ Len(stdout[1].iterations) = 2
  /\ "udp.data" \in DOMAIN stdout[1].iterations[1]
  /\ "udp.data" \notin DOMAIN stdout[1].iterations[2]
  /\ KernelKeys \subseteq DOMAIN stdout[1].iterations[2]

====
